---- MODULE Spec2Model ----
(***************************************************************************)
(* Model of the HAT EEPROM codec of python-max-usb:                        *)
(*   - eepmake.py, class EepMake: the directive document builder           *)
(*     (read_text / parse_command / parse_data / parse_string), the CRC16  *)
(*     engine and the atom encoder (write_binary);                         *)
(*   - MaxUsbTool.py: write_eeprom_from_file (image -> device), the atom   *)
(*     decoder parse_rpi_hat_eeprom (device -> printed fields) and         *)
(*     verify_eeprom_write (device against the file).                      *)
(* Spec is the flow of the sample tool.  SpecCrc, SpecData, SpecGpio,      *)
(* SpecWrite and SpecVerify run one function each on a wider set of        *)
(* inputs: calculate_crc16, read_text on data lines, read_text on the GPIO *)
(* directives of a V1 object, write_eeprom_from_file page by page,         *)
(* verify_eeprom_write read by read.                                       *)
(* Strings are sequences of code points, byte strings sequences of 0..255. *)
(* TLC's integers end at 2^31 - 1.  Python's are unbounded and the code    *)
(* holds values up to 2^32 - 1 in its 32-bit fields, so the inputs of the  *)
(* model stay below 2^31, the placeholder 0xffffffff is written as its     *)
(* four bytes, and a 32-bit length read back from a buffer is kept exact   *)
(* below 2^30 and represented by 2^30 from there on (see U32).             *)
(***************************************************************************)
EXTENDS Integers, Sequences, FiniteSets, TLC

VARIABLES pc, doc, line_count, cur_line, wb, eeprom, prog, dec, crc, wr, ver

vars == <<pc, doc, line_count, cur_line, wb, eeprom, prog, dec, crc, wr, ver>>

(***************************************************************************)
(* Bounds of the model.                                                    *)
(***************************************************************************)
\* directive lines read_text processes before the end of the text
MaxLines == 2
\* calculate_crc16 on its own: the longest input, and the calls made on one input
MaxCrcLen == 3
MaxCrcCalls == 2
\* the byte values the inputs of calculate_crc16 are built from
CrcBytes == {0, 1, 128, 255}
\* crc outside the runs of calculate_crc16 on its own
NoCrc == [data |-> <<>>, results |-> <<>>]

(***************************************************************************)
(* Program constants.                                                      *)
(***************************************************************************)
CRC_LEN == 2
EEPLEN_INDEX == 8
GPIO_MIN == 2
GPIO_COUNT == 28
GPIO_COUNT_BANK1 == 18
GPIO_COUNT_TOTAL == GPIO_COUNT + GPIO_COUNT_BANK1
HEADER_SIGN == 1766862162
ATOM_VENDOR == 1
ATOM_GPIO == 2
ATOM_DT == 3
ATOM_CUSTOM == 4
ATOM_GPIO_BANK1 == 5
ATOM_POWER_SUPPLY == 6
HATV1 == 1
HATPLUS == 2
CRC16_POLY == 32773
PAGE_SIZE == 32
MAX_ATTEMPTS == 6
ATOM_HEADER_SIZE == 8
FIRST_ATOM_OFFSET == 12
SUPPORTED_VERSION == 2
EEPROM_SIZE == 256
START_ADDR == 0
FT_OK == 0
FT_IO_ERROR == 4

(***************************************************************************)
(* Byte and sequence helpers (struct.pack, slicing, list indexing).        *)
(***************************************************************************)
Min(a, b) == IF a < b THEN a ELSE b
Max(a, b) == IF a > b THEN a ELSE b

\* struct.pack('<H', x) and struct.pack('<I', x): little-endian bytes
LE16(x) == <<x % 256, (x \div 256) % 256>>
LE32(x) == <<x % 256, (x \div 256) % 256, (x \div 65536) % 256, (x \div 16777216) % 256>>
\* struct.pack raises struct.error for a value outside the format's range
FitsH(x) == x >= 0 /\ x <= 65535
\* ('<I' ends at 2^32 - 1, above every integer of the model)
FitsI(x) == x >= 0
FitsB(x) == x >= 0 /\ x <= 255

\* Python slice s[a:b] for 0 <= a (0-based, end exclusive, clamped to len(s))
Slice(s, a, b) == IF Min(b, Len(s)) <= a THEN <<>> ELSE SubSeq(s, a + 1, Min(b, Len(s)))
\* Python index s[i] for 0 <= i < len(s) (0-based); InRange is the IndexError test
InRange(s, i) == i >= 0 /\ i < Len(s)
At(s, i) == s[i + 1]

\* [b] * n
Repeat(b, n) == SubSeq([i \in 1..n |-> b], 1, n)

RECURSIVE Flatten(_)
Flatten(ss) == IF ss = <<>> THEN <<>> ELSE Head(ss) \o Flatten(Tail(ss))

\* str.encode('utf-8') of a sequence of code points (below 65536)
Utf8Char(c) ==
    IF c < 128 THEN <<c>>
    ELSE IF c < 2048 THEN <<192 + (c \div 64), 128 + (c % 64)>>
    ELSE <<224 + (c \div 4096), 128 + ((c \div 64) % 64), 128 + (c % 64)>>
Utf8(s) == Flatten([i \in 1..Len(s) |-> Utf8Char(s[i])])

(***************************************************************************)
(* CRC16 engine: EepMake.calculate_crc16.                                  *)
(***************************************************************************)
RECURSIVE XorBits(_, _, _)
XorBits(a, b, n) ==
    IF n = 0 THEN 0
    ELSE (((a % 2) + (b % 2)) % 2) + 2 * XorBits(a \div 2, b \div 2, n - 1)
\* a ^ b on 16-bit operands
Xor16(a, b) == XorBits(a, b, 16)

\* one iteration of the inner while loop: shift the state, inject one bit
CrcInject(crc_state, bit) ==
    LET bit_flag == crc_state \div 32768
        shifted == ((crc_state * 2) % 65536) + bit
    IN IF bit_flag # 0 THEN Xor16(shifted, CRC16_POLY) ELSE shifted

\* the bits of a byte injected from the high end down
RECURSIVE CrcByteMsbFirst(_, _, _)
CrcByteMsbFirst(crc_state, byte_val, bits_read) ==
    IF bits_read >= 8 \/ crc_state < 0 THEN crc_state
    ELSE CrcByteMsbFirst(CrcInject(crc_state, (byte_val \div (2 ^ (7 - bits_read))) % 2),
                         byte_val, bits_read + 1)

RECURSIVE CrcByte(_, _, _)
CrcByte(crc_state, byte_val, bits_read) ==
    IF bits_read >= 8 \/ crc_state < 0 THEN crc_state
    ELSE CrcByte(CrcInject(crc_state, (byte_val \div (2 ^ bits_read)) % 2),
                 byte_val, bits_read + 1)

\* the for loop over data[lo..hi], in order; the range is split in halves only to
\* keep the depth of TLC's evaluation logarithmic in the length.  (A CRC state is
\* never negative: the tests crc_state < 0 here and below only make TLC evaluate
\* the state at each step instead of nesting the steps.)
RECURSIVE CrcData(_, _, _, _)
CrcData(crc_state, data, lo, hi) ==
    IF lo > hi \/ crc_state < 0 THEN crc_state
    ELSE IF lo = hi THEN CrcByte(crc_state, data[lo], 0)
    ELSE LET mid == (lo + hi) \div 2
             left == CrcData(crc_state, data, lo, mid)
         IN CrcData(left, data, mid + 1, hi)

\* the 16 flush iterations: shift with no input
RECURSIVE CrcFlush(_, _)
CrcFlush(crc_state, n) ==
    IF n = 0 \/ crc_state < 0 THEN crc_state ELSE CrcFlush(CrcInject(crc_state, 0), n - 1)

\* the final while loop: bit reversal of the 16-bit state
RECURSIVE CrcReverse(_, _, _)
CrcReverse(crc_state, i, j) ==
    IF i = 0 THEN 0
    ELSE (IF (crc_state \div i) % 2 = 1 THEN j ELSE 0) + CrcReverse(crc_state, i \div 2, j * 2)

calculate_crc16(data) ==
    CrcReverse(CrcFlush(CrcData(0, data, 1, Len(data)), 16), 32768, 1) % 65536

(***************************************************************************)
(* The Document: the fields of an EepMake object (EepMake.__init__).       *)
(* data_blob is the active data sink: 0 is None, k > 0 is custom_blobs[k]  *)
(* (the sink only ever refers to a blob returned by add_custom_blob).      *)
(***************************************************************************)
RECURSIVE OrBits(_, _, _)
OrBits(a, b, n) ==
    IF n = 0 THEN 0
    ELSE (IF (a % 2) + (b % 2) > 0 THEN 1 ELSE 0) + 2 * OrBits(a \div 2, b \div 2, n - 1)
\* a | b on non-negative operands below 2^32
Or32(a, b) == OrBits(a, b, 32)

NewGpioMap == [flags |-> 0, power |-> 0, pins |-> Repeat(0, GPIO_COUNT)]

NewEepMake(fmt) ==
    [vinf |-> [serial |-> <<0, 0, 0, 0>>, pid |-> 0, pver |-> 0, vstr |-> <<>>, pstr |-> <<>>],
     dt_blob |-> <<>>,
     custom_blobs |-> <<>>,
     data_blob |-> 0,
     in_string |-> FALSE,
     product_serial_set |-> FALSE,
     product_id_set |-> FALSE,
     product_ver_set |-> FALSE,
     vendor_set |-> FALSE,
     product_set |-> FALSE,
     has_dt |-> FALSE,
     gpiomap_bank0 |-> NewGpioMap,
     gpiomap_bank1 |-> NewGpioMap,
     has_gpio_bank0 |-> FALSE,
     has_gpio_bank1 |-> FALSE,
     gpio_drive_set |-> FALSE,
     gpio_slew_set |-> FALSE,
     gpio_hysteresis_set |-> FALSE,
     gpio_power_set |-> FALSE,
     power_supply |-> 0,
     current_supply_set |-> FALSE,
     has_power_supply |-> FALSE,
     hat_format |-> fmt,
     atom_count |-> 0]

\* the outcome of one parse_command / parse_data call: the Document after it and
\* how it ended: "ok" (return 0), "error" (return -1), "exit" (sys.exit(1)),
\* "raise" (an exception no handler catches)
Ret(d, rc) == [doc |-> d, rc |-> rc]

\* the result of int(token, base): a value, or ValueError
IntOf(v) == [valid |-> TRUE, v |-> v]
NotAnInt == [valid |-> FALSE, v |-> 0]
\* the result of re.search(r'"([^"]*)"', args): group 1, or no match
Quoted(s) == [matched |-> TRUE, s |-> s]
NoQuote == [matched |-> FALSE, s |-> <<>>]

\* add_data_byte writing to the first custom blob instead of the sink
add_data_byte_first(d, byte) ==
    IF d.data_blob = 0 THEN d
    ELSE [d EXCEPT !.custom_blobs[1] = Append(@, byte)]

add_data_byte(d, byte) ==
    IF d.data_blob = 0 THEN d
    ELSE [d EXCEPT !.custom_blobs[d.data_blob] = Append(@, byte)]

RECURSIVE add_data_bytes(_, _)
add_data_bytes(d, bytes) ==
    IF bytes = <<>> THEN d ELSE add_data_bytes(add_data_byte(d, Head(bytes)), Tail(bytes))

finish_data(d) == [d EXCEPT !.data_blob = 0]

\* add_custom_blob followed by self.data_blob = blob
add_custom_blob(d) ==
    [d EXCEPT !.custom_blobs = Append(@, <<>>), !.data_blob = Len(d.custom_blobs) + 1]

(***************************************************************************)
(* parse_data, unquoted branch: keep the hex digits, pair them into bytes. *)
(***************************************************************************)
HexDigits == (48..57) \cup (65..70) \cup (97..102)
Letters == (65..90) \cup (97..122)
HexVal(c) == IF c \in 48..57 THEN c - 48 ELSE IF c \in 65..70 THEN c - 55 ELSE c - 87

RECURSIVE HexChars(_)
HexChars(line) ==
    IF line = <<>> THEN <<>>
    ELSE (IF Head(line) \in HexDigits THEN <<Head(line)>> ELSE <<>>) \o HexChars(Tail(line))

HexBytes(hex_chars) ==
    [i \in 1..(Len(hex_chars) \div 2) |->
        16 * HexVal(hex_chars[2 * i - 1]) + HexVal(hex_chars[2 * i])]

\* a decoder that drops the last digit of an odd run instead of reporting it
parse_data_hex_lenient(d, line) == Ret(add_data_bytes(d, HexBytes(HexChars(line))), "ok")

parse_data_hex(d, line) ==
    LET hex_chars == HexChars(line)
    IN IF Len(hex_chars) % 2 # 0 THEN Ret(d, "error")
       ELSE Ret(add_data_bytes(d, HexBytes(hex_chars)), "ok")

(***************************************************************************)
(* parse_data, quoted branches, and parse_string (multi-line string mode). *)
(* Characters are code points below 256.                                   *)
(***************************************************************************)
\* str.strip()
Whitespace == {9, 10, 11, 12, 13, 28, 29, 30, 31, 32, 133, 160}
RECURSIVE LStrip(_)
LStrip(s) == IF s # <<>> /\ Head(s) \in Whitespace THEN LStrip(Tail(s)) ELSE s
RECURSIVE RStrip(_)
RStrip(s) ==
    IF s # <<>> /\ s[Len(s)] \in Whitespace THEN RStrip(SubSeq(s, 1, Len(s) - 1)) ELSE s
Strip(s) == RStrip(LStrip(s))

\* str.isprintable() of one character
IsPrintable(c) == c \in (32..126) \cup ((161..255) \ {173})

Contains(s, c) == \E i \in 1..Len(s) : s[i] = c

\* the simple one-line string: the content between the quotes, then finish_data
RECURSIVE parse_data_simple(_, _)
parse_data_simple(d, content) ==
    IF content = <<>> THEN Ret(finish_data(d), "ok")
    ELSE IF ~IsPrintable(Head(content)) /\ Head(content) \notin {9, 10, 13}
         THEN Ret(d, "exit")
    ELSE parse_data_simple(add_data_byte(d, Head(content)), Tail(content))

\* the byte an escape of the one-line string stands for: r \ " n t 0
EscapeByte(next_char) ==
    CASE next_char = 114 -> 13 [] next_char = 92 -> 92 [] next_char = 34 -> 34
      [] next_char = 110 -> 10 [] next_char = 116 -> 9 [] next_char = 48 -> 0
      [] OTHER -> -1

\* the while loop over a one-line string with escapes; line[i] is the character
\* at hand (the opening quote is line[1])
RECURSIVE parse_data_escapes(_, _, _)
parse_data_escapes(d, line, i) ==
    IF i > Len(line) THEN Ret(d, "exit")
    ELSE IF line[i] = 92 /\ i + 1 <= Len(line)
         THEN IF EscapeByte(line[i + 1]) < 0 THEN Ret(d, "exit")
              ELSE parse_data_escapes(add_data_byte(d, EscapeByte(line[i + 1])), line, i + 2)
    ELSE IF line[i] = 34 THEN Ret(finish_data(d), "ok")
    ELSE IF ~IsPrintable(line[i]) THEN Ret(d, "exit")
    ELSE parse_data_escapes(add_data_byte(d, line[i]), line, i + 1)

parse_data(d, text) ==
    LET line == Strip(text)
    IN IF line # <<>> /\ line[1] = 34
       THEN IF Len(line) = 1 \/ line[2] \in {10, 13}
            THEN Ret([d EXCEPT !.in_string = TRUE], "ok")
            ELSE IF line[Len(line)] = 34 /\ ~Contains(line, 92)
                 THEN parse_data_simple(d, SubSeq(line, 2, Len(line) - 1))
                 ELSE parse_data_escapes(d, line, 2)
       ELSE parse_data_hex(d, line)

\* the escaped quote of parse_string: in_string = False, finish_data()
CloseString(d) == finish_data([d EXCEPT !.in_string = FALSE])

\* the while loop of parse_string; line[i] is the character at hand
RECURSIVE parse_string_from(_, _, _)
parse_string_from(d, line, i) ==
    IF i > Len(line) THEN Ret(d, "ok")
    ELSE IF line[i] = 92 /\ i + 1 <= Len(line)
         THEN IF line[i + 1] = 114 THEN parse_string_from(add_data_byte(d, 13), line, i + 2)
              ELSE IF line[i + 1] = 92 THEN parse_string_from(add_data_byte(d, 92), line, i + 2)
              ELSE IF line[i + 1] = 48 THEN Ret(add_data_byte(d, 0), "ok")
              ELSE IF line[i + 1] = 34 THEN Ret(CloseString(d), "ok")
              ELSE Ret(d, "exit")
    ELSE IF line[i] = 13 THEN parse_string_from(d, line, i + 1)
    ELSE parse_string_from(add_data_byte(d, line[i]), line, i + 1)

parse_string(d, line) == parse_string_from(d, line, 1)

(***************************************************************************)
(* parse_command, one operator per command branch.                         *)
(***************************************************************************)
hatplus_required(d) == d.hat_format >= HATPLUS
hatplus_unsupported(d) == d.hat_format = HATV1

\* uuid.uuid4() unpacked as four little-endian words: any value, never all zero
RandomSerials == {<<287454020, 1, 2, 3>>}

\* g = the six hex groups of the UUID text as integers, or no match
cmd_product_uuid(d, m, rnd) ==
    LET d1 == [d EXCEPT !.product_serial_set = TRUE]
        ser == <<m.g[6],
                 Or32(m.g[4] * 65536, m.g[5]),
                 Or32(m.g[2] * 65536, m.g[3]),
                 m.g[1]>>
    IN IF m.matched
       THEN IF ser = <<0, 0, 0, 0>>
            THEN Ret([d1 EXCEPT !.vinf.serial = rnd], "ok")
            ELSE Ret([d1 EXCEPT !.vinf.serial = ser], "ok")
       ELSE Ret([d1 EXCEPT !.vinf.serial = rnd], "ok")

\* if x > 0xFFFF: x &= 0xFFFF, and the same for 0xFFFFFFFF
Mask16(x) == IF x > 65535 THEN x % 65536 ELSE x
\* (no integer of the model is above 0xFFFFFFFF, so the 32-bit mask never applies)
Mask32(x) == x

cmd_product_id(d, n) ==
    LET d1 == [d EXCEPT !.product_id_set = TRUE]
    IN IF n.valid THEN Ret([d1 EXCEPT !.vinf.pid = Mask16(n.v)], "ok")
       ELSE Ret(d1, "error")

cmd_product_ver(d, n) ==
    LET d1 == [d EXCEPT !.product_ver_set = TRUE]
    IN IF n.valid THEN Ret([d1 EXCEPT !.vinf.pver = Mask16(n.v)], "ok")
       ELSE Ret(d1, "error")

\* vendor_str[:255]
Truncate255(s) == IF Len(s) > 255 THEN SubSeq(s, 1, 255) ELSE s

cmd_vendor(d, q) ==
    LET d1 == [d EXCEPT !.vendor_set = TRUE]
    IN IF q.matched THEN Ret([d1 EXCEPT !.vinf.vstr = Truncate255(q.s)], "ok")
       ELSE Ret(d1, "error")

cmd_product(d, q) ==
    LET d1 == [d EXCEPT !.product_set = TRUE]
    IN IF q.matched THEN Ret([d1 EXCEPT !.vinf.pstr = Truncate255(q.s)], "ok")
       ELSE Ret(d1, "error")

cmd_current_supply(d, n) ==
    IF ~hatplus_required(d) THEN Ret(d, "exit")
    ELSE IF ~n.valid THEN Ret(d, "error")
    ELSE LET cur == Mask32(n.v)
             d1 == [d EXCEPT !.power_supply = cur]
         IN IF cur # 0
            THEN Ret([d1 EXCEPT !.current_supply_set = TRUE, !.has_power_supply = TRUE], "ok")
            ELSE Ret(d1, "ok")

cmd_gpio_drive(d, n) ==
    IF ~hatplus_unsupported(d) THEN Ret(d, "exit")
    ELSE LET d1 == [d EXCEPT !.gpio_drive_set = TRUE, !.has_gpio_bank0 = TRUE]
         IN IF ~n.valid THEN Ret(d1, "error")
            ELSE IF 0 <= n.v /\ n.v <= 8
                 THEN Ret([d1 EXCEPT !.gpiomap_bank0.flags = Or32(@, n.v)], "ok")
                 ELSE Ret(d1, "ok")

cmd_gpio_slew(d, n) ==
    IF ~hatplus_unsupported(d) THEN Ret(d, "exit")
    ELSE LET d1 == [d EXCEPT !.gpio_slew_set = TRUE, !.has_gpio_bank0 = TRUE]
         IN IF ~n.valid THEN Ret(d1, "raise")
            ELSE IF 0 <= n.v /\ n.v <= 2
                 THEN Ret([d1 EXCEPT !.gpiomap_bank0.flags = Or32(@, n.v * 16)], "ok")
                 ELSE Ret(d1, "ok")

\* gpio_hysteresis with its field one bit lower, over the high bit of gpio_slew
cmd_gpio_hysteresis_low(d, n) ==
    IF ~hatplus_unsupported(d) THEN Ret(d, "exit")
    ELSE LET d1 == [d EXCEPT !.gpio_hysteresis_set = TRUE, !.has_gpio_bank0 = TRUE]
         IN IF ~n.valid THEN Ret(d1, "raise")
            ELSE IF 0 <= n.v /\ n.v <= 2
                 THEN Ret([d1 EXCEPT !.gpiomap_bank0.flags = Or32(@, n.v * 32)], "ok")
                 ELSE Ret(d1, "ok")

cmd_gpio_hysteresis(d, n) ==
    IF ~hatplus_unsupported(d) THEN Ret(d, "exit")
    ELSE LET d1 == [d EXCEPT !.gpio_hysteresis_set = TRUE, !.has_gpio_bank0 = TRUE]
         IN IF ~n.valid THEN Ret(d1, "raise")
            ELSE IF 0 <= n.v /\ n.v <= 2
                 THEN Ret([d1 EXCEPT !.gpiomap_bank0.flags = Or32(@, n.v * 64)], "ok")
                 ELSE Ret(d1, "ok")

cmd_back_power(d, n) ==
    IF ~hatplus_unsupported(d) THEN Ret(d, "exit")
    ELSE LET d1 == [d EXCEPT !.gpio_power_set = TRUE, !.has_gpio_bank0 = TRUE]
         IN IF ~n.valid THEN Ret(d1, "raise")
            ELSE IF 0 <= n.v /\ n.v <= 2
                 THEN Ret([d1 EXCEPT !.gpiomap_bank0.power = n.v], "ok")
                 ELSE Ret(d1, "ok")

\* the function codes with ALT0..ALT5 numbered in order after OUTPUT
FnCodeInOrder(fn) ==
    CASE fn = "INPUT" -> 0 [] fn = "OUTPUT" -> 1 [] fn = "ALT0" -> 2 [] fn = "ALT1" -> 3
      [] fn = "ALT2" -> 4 [] fn = "ALT3" -> 5 [] fn = "ALT4" -> 6 [] fn = "ALT5" -> 7
      [] OTHER -> -1
FnCode(fn) ==
    CASE fn = "INPUT" -> 0 [] fn = "OUTPUT" -> 1 [] fn = "ALT0" -> 4 [] fn = "ALT1" -> 5
      [] fn = "ALT2" -> 6 [] fn = "ALT3" -> 7 [] fn = "ALT4" -> 3 [] fn = "ALT5" -> 2
      [] OTHER -> -1
PullCode(pull) ==
    CASE pull = "DEFAULT" -> 0 [] pull = "UP" -> 16 [] pull = "DOWN" -> 32 [] pull = "NONE" -> 48
      [] OTHER -> -1

\* nargs = len(args.split()); n = int(args_parts[0])
cmd_setgpio(d, nargs, n, fn, pull) ==
    IF ~hatplus_unsupported(d) THEN Ret(d, "exit")
    ELSE IF nargs < 3 THEN Ret(d, "error")
    ELSE IF ~n.valid THEN Ret(d, "error")
    ELSE IF n.v < GPIO_MIN \/ n.v >= GPIO_COUNT_TOTAL THEN Ret(d, "error")
    ELSE LET bank1 == n.v >= GPIO_COUNT
             gpio_num == IF bank1 THEN n.v - GPIO_COUNT ELSE n.v
             d1 == IF bank1 THEN [d EXCEPT !.has_gpio_bank1 = TRUE] ELSE d
         IN IF FnCode(fn) < 0 THEN Ret(d1, "error")
            ELSE IF PullCode(pull) < 0 THEN Ret(d1, "error")
            ELSE LET pin == Or32(FnCode(fn), PullCode(pull))
                 IN IF bank1
                    THEN Ret([d1 EXCEPT !.gpiomap_bank1.pins[gpio_num + 1] = pin], "ok")
                    ELSE Ret([d1 EXCEPT !.gpiomap_bank0.pins[gpio_num + 1] = pin], "ok")

\* payload = parts[1], never blank once len(parts) >= 2
cmd_custom_data(d, payload) == parse_data(add_custom_blob(d), payload)

cmd_end(d) == Ret(finish_data(d), "ok")

cmd_dt_blob(d, q) ==
    IF ~hatplus_required(d) THEN Ret(d, "exit")
    ELSE IF q.matched THEN Ret([d EXCEPT !.dt_blob = Utf8(q.s), !.has_dt = TRUE], "ok")
    ELSE Ret(d, "ok")

\* str.isalpha() of a token
IsAlpha(tok) == tok # <<>> /\ \A i \in 1..Len(tok) : tok[i] \in Letters

\* the final else branch: cmd is no known command; line is the whole line
cmd_other(d, cmd, line) ==
    IF ~IsAlpha(cmd)
    THEN parse_data(IF d.data_blob = 0 THEN add_custom_blob(d) ELSE d, line)
    ELSE Ret(d, "ok")

(***************************************************************************)
(* Atom encoder: write_atom_header, write_complete_atom, write_atom_*,     *)
(* write_binary.  An atom job is the payload one write_atom_* call builds  *)
(* and whether building it raised (struct.error / ValueError).             *)
(***************************************************************************)
\* the data-length field without the checksum it announces
AtomDlenSansCrc(data_len) == data_len

\* dlen = data_len + CRC_LEN
AtomDlen(data_len) == data_len + CRC_LEN

\* struct.pack('<HHI', atom_type, self.atom_count, dlen)
write_atom_header(atom_type, atom_count, data_len) ==
    LE16(atom_type) \o LE16(atom_count) \o LE32(AtomDlen(data_len))

\* the checksum write_complete_atom appends: the CRC16 of the payload
AtomCrc(data) == calculate_crc16(data)

write_complete_atom(atom_type, atom_count, data) ==
    write_atom_header(atom_type, atom_count, Len(data)) \o data \o LE16(AtomCrc(data))

Job(atom_type, data, ok) == [type |-> atom_type, data |-> data, ok |-> ok]

VendorData(d) ==
    LE32(d.vinf.serial[1]) \o LE32(d.vinf.serial[2]) \o LE32(d.vinf.serial[3])
    \o LE32(d.vinf.serial[4]) \o LE16(d.vinf.pid) \o LE16(d.vinf.pver)
    \o <<Len(d.vinf.vstr), Len(d.vinf.pstr)>> \o Utf8(d.vinf.vstr) \o Utf8(d.vinf.pstr)

write_atom_vendor(d) ==
    Job(ATOM_VENDOR, VendorData(d),
        /\ \A i \in 1..4 : FitsI(d.vinf.serial[i])
        /\ FitsH(d.vinf.pid) /\ FitsH(d.vinf.pver)
        /\ FitsB(Len(d.vinf.vstr)) /\ FitsB(Len(d.vinf.pstr)))

GpioData(gpiomap, pin_count) ==
    <<gpiomap.flags, gpiomap.power>>
    \o [i \in 1..pin_count |-> IF i <= Len(gpiomap.pins) THEN gpiomap.pins[i] ELSE 0]

write_atom_gpio(gpiomap, bank1) ==
    LET data == GpioData(gpiomap, IF bank1 THEN GPIO_COUNT_BANK1 ELSE GPIO_COUNT)
    IN Job(IF bank1 THEN ATOM_GPIO_BANK1 ELSE ATOM_GPIO, data,
           \A i \in 1..Len(data) : FitsB(data[i]))

write_atom_power_supply(d) ==
    Job(ATOM_POWER_SUPPLY, LE32(d.power_supply), FitsI(d.power_supply))

write_atom_var(blob, atom_type) == Job(atom_type, blob, TRUE)

\* the count as it was before bank 1 existed: the bank-1 atom is not counted
NumAtomsSansBank1(d) ==
    1 + (IF d.has_gpio_bank0 THEN 1 ELSE 0) + (IF d.has_dt THEN 1 ELSE 0)
      + Len(d.custom_blobs) + (IF d.has_power_supply THEN 1 ELSE 0)

\* num_atoms as write_binary counts it before writing the header
NumAtoms(d) ==
    1 + (IF d.has_gpio_bank0 THEN 1 ELSE 0) + (IF d.has_dt THEN 1 ELSE 0)
      + Len(d.custom_blobs) + (IF d.has_gpio_bank1 THEN 1 ELSE 0)
      + (IF d.has_power_supply THEN 1 ELSE 0)

\* the two GPIO banks written together, ahead of the device tree and the
\* custom blobs
AtomJobsBanksTogether(d) ==
    <<write_atom_vendor(d)>>
    \o (IF d.has_gpio_bank0 THEN <<write_atom_gpio(d.gpiomap_bank0, FALSE)>> ELSE <<>>)
    \o (IF d.has_gpio_bank1 THEN <<write_atom_gpio(d.gpiomap_bank1, TRUE)>> ELSE <<>>)
    \o (IF d.has_dt THEN <<write_atom_var(d.dt_blob, ATOM_DT)>> ELSE <<>>)
    \o [i \in 1..Len(d.custom_blobs) |-> write_atom_var(d.custom_blobs[i], ATOM_CUSTOM)]
    \o (IF d.has_power_supply THEN <<write_atom_power_supply(d)>> ELSE <<>>)

\* the write_atom_* calls of write_binary, in the order it makes them
AtomJobs(d) ==
    <<write_atom_vendor(d)>>
    \o (IF d.has_gpio_bank0 THEN <<write_atom_gpio(d.gpiomap_bank0, FALSE)>> ELSE <<>>)
    \o (IF d.has_dt THEN <<write_atom_var(d.dt_blob, ATOM_DT)>> ELSE <<>>)
    \o [i \in 1..Len(d.custom_blobs) |-> write_atom_var(d.custom_blobs[i], ATOM_CUSTOM)]
    \o (IF d.has_gpio_bank1 THEN <<write_atom_gpio(d.gpiomap_bank1, TRUE)>> ELSE <<>>)
    \o (IF d.has_power_supply THEN <<write_atom_power_supply(d)>> ELSE <<>>)

\* struct.pack('<IBBHI', HEADER_SIGN, hat_format, 0, num_atoms, 0xffffffff)
ImageHeader(d) ==
    LE32(HEADER_SIGN) \o <<d.hat_format, 0>> \o LE16(NumAtoms(d)) \o <<255, 255, 255, 255>>

\* the atoms written one after the other until a job raises
RECURSIVE EmitAtoms(_, _, _)
EmitAtoms(jobs, out, atom_count) ==
    IF jobs = <<>> THEN [bytes |-> out, atom_count |-> atom_count, ok |-> TRUE]
    ELSE IF ~Head(jobs).ok THEN [bytes |-> out, atom_count |-> atom_count, ok |-> FALSE]
    ELSE EmitAtoms(Tail(jobs),
                   out \o write_complete_atom(Head(jobs).type, atom_count, Head(jobs).data),
                   atom_count + 1)

\* the length patched in counts the atoms only, not the 12-byte header
PatchLengthSansHeader(bytes) ==
    [i \in 1..Len(bytes) |->
        IF i > EEPLEN_INDEX /\ i <= EEPLEN_INDEX + 4
        THEN LE32(Len(bytes) - 12)[i - EEPLEN_INDEX] ELSE bytes[i]]

\* fp.seek(EEPLEN_INDEX); fp.write(struct.pack('<I', file_size))
PatchLength(bytes) ==
    [i \in 1..Len(bytes) |->
        IF i > EEPLEN_INDEX /\ i <= EEPLEN_INDEX + 4
        THEN LE32(Len(bytes))[i - EEPLEN_INDEX] ELSE bytes[i]]

\* an encoder that goes on counting where the last invocation stopped
KeepAtomCount(d) == d.atom_count

\* self.atom_count = 0, the first statement of write_binary
ResetAtomCount(d) == 0

\* write_binary: the file it leaves, its return value, and self.atom_count after it
write_binary(d) ==
    IF ~(FitsB(d.hat_format) /\ FitsH(NumAtoms(d)))
    THEN [image |-> <<>>, ret |-> -1, atom_count |-> ResetAtomCount(d)]
    ELSE LET w == EmitAtoms(AtomJobs(d), ImageHeader(d), ResetAtomCount(d))
         IN IF w.ok
            THEN [image |-> PatchLength(w.bytes), ret |-> 0, atom_count |-> w.atom_count]
            ELSE [image |-> w.bytes, ret |-> -1, atom_count |-> w.atom_count]

(***************************************************************************)
(* read_text: one action per kind of directive line.  The inputs are the   *)
(* values the line's tokens parse to.                                      *)
(***************************************************************************)
NoWrite == [called |-> FALSE, ret |-> 0, image |-> <<>>]
NoProgram == [called |-> FALSE, ret |-> 0, written |-> 0]
\* no call of write_eeprom_from_file, no call of verify_eeprom_write
NoWr ==
    [pc |-> "idle", start_addr |-> 0, found |-> FALSE, file |-> <<>>, data |-> <<>>,
     addr |-> 0, total_written |-> 0, writes |-> <<>>, ret |-> <<0, 0>>]
NoVer ==
    [pc |-> "idle", start_addr |-> 0, found |-> FALSE, original_data |-> <<>>, attempt |-> 0,
     ret |-> 0, data_list |-> <<>>, mismatches |-> {}, good |-> FALSE, result |-> FALSE]

\* the line at hand in the for loop of read_text: its command token, the number
\* of parts line.split(None, 1) gives, and the text handed to parse_data or
\* parse_string, if any
Line(cmd, nparts, data) == [cmd |-> cmd, nparts |-> nparts, data |-> data]
NoLine == Line("", 0, <<>>)

\* one iteration of the for loop of read_text: the line c with the result r
ReadLine(c, r) ==
    /\ pc = "read_text"
    /\ line_count < MaxLines
    /\ line_count' = line_count + 1
    /\ cur_line' = c
    /\ doc' = r.doc
    /\ pc' = CASE r.rc = "ok" -> "read_text"
               [] r.rc = "error" -> "abort"
               [] r.rc = "exit" -> "exit"
               [] OTHER -> "raised"
    /\ UNCHANGED <<wb, eeprom, prog, dec, crc, wr, ver>>

\* a line that reaches a branch of parse_command: not in string mode, len(parts) = 2
Apply(cmd, data, r) == ~doc.in_string /\ ReadLine(Line(cmd, 2, data), r)

UuidInputs ==
    {[matched |-> TRUE, g |-> <<305419896, 4660, 22136, 6844, 57072, 287454020>>],
     [matched |-> TRUE, g |-> <<0, 0, 0, 0, 0, 0>>],
     [matched |-> FALSE, g |-> <<0, 0, 0, 0, 0, 0>>]}
PidInputs == {IntOf(4660), IntOf(-1), NotAnInt}
PverInputs == {IntOf(74565)}
VendorInputs == {Quoted(<<65, 233>>), NoQuote}
ProductInputs == {Quoted(<<66>>)}
SupplyInputs == {IntOf(500), IntOf(0), IntOf(-5)}
DriveInputs == {IntOf(8), IntOf(9)}
SlewInputs == {IntOf(1)}
HysteresisInputs == {IntOf(2)}
BackPowerInputs == {IntOf(1), NotAnInt}
SetGpioInputs ==
    {<<3, IntOf(2), "OUTPUT", "UP">>, <<3, IntOf(45), "ALT0", "NONE">>,
     <<3, IntOf(46), "INPUT", "DEFAULT">>, <<2, IntOf(3), "INPUT", "">>}
\* 41 42, 4 (odd), a lone quote, "B" and "A\n"
CustomPayloads ==
    {<<52, 49, 32, 52, 50>>, <<52>>, <<34>>, <<34, 66, 34>>, <<34, 65, 92, 110, 34>>}
\* "0a,0B x" and "foo bar"
OtherLines == {<<48, 97, 44, 48, 66, 32, 120>>, <<102, 111, 111, 32, 98, 97, 114>>}
\* "ov" and "/x"
DtInputs == {Quoted(<<111, 118>>), Quoted(<<47, 120>>)}
\* lines read in string mode, each with its newline:
\*   end x   a"b   x\"y   \0z   \r\\   \q
StringLines ==
    {<<101, 110, 100, 32, 120, 10>>, <<97, 34, 98, 10>>, <<120, 92, 34, 121, 10>>,
     <<92, 48, 122, 10>>, <<92, 114, 92, 92, 10>>, <<92, 113, 10>>}
\* the command tokens read alone on a line
BareCommands == {"end", "custom_data", "current_supply", "gpio_drive"}

\* line.split(None, 1)[0] of a stripped line
RECURSIVE FirstToken(_)
FirstToken(line) ==
    IF line = <<>> \/ Head(line) \in {32, 9} THEN <<>>
    ELSE <<Head(line)>> \o FirstToken(Tail(line))

Line_product_uuid ==
    \E m \in UuidInputs, rnd \in RandomSerials :
        Apply("product_uuid", <<>>, cmd_product_uuid(doc, m, rnd))
Line_product_id == \E n \in PidInputs : Apply("product_id", <<>>, cmd_product_id(doc, n))
Line_product_ver == \E n \in PverInputs : Apply("product_ver", <<>>, cmd_product_ver(doc, n))
Line_vendor == \E q \in VendorInputs : Apply("vendor", <<>>, cmd_vendor(doc, q))
Line_product == \E q \in ProductInputs : Apply("product", <<>>, cmd_product(doc, q))
Line_current_supply ==
    \E n \in SupplyInputs : Apply("current_supply", <<>>, cmd_current_supply(doc, n))
Line_gpio_drive == \E n \in DriveInputs : Apply("gpio_drive", <<>>, cmd_gpio_drive(doc, n))
Line_gpio_slew == \E n \in SlewInputs : Apply("gpio_slew", <<>>, cmd_gpio_slew(doc, n))
Line_gpio_hysteresis ==
    \E n \in HysteresisInputs : Apply("gpio_hysteresis", <<>>, cmd_gpio_hysteresis(doc, n))
Line_back_power == \E n \in BackPowerInputs : Apply("back_power", <<>>, cmd_back_power(doc, n))
Line_setgpio ==
    \E a \in SetGpioInputs :
        Apply("setgpio", <<>>, cmd_setgpio(doc, a[1], a[2], a[3], a[4]))
Line_custom_data ==
    \E payload \in CustomPayloads : Apply("custom_data", payload, cmd_custom_data(doc, payload))
\* "end" followed by some argument text
Line_end == Apply("end", <<>>, cmd_end(doc))
Line_dt_blob == \E q \in DtInputs : Apply("dt_blob", <<>>, cmd_dt_blob(doc, q))
Line_other ==
    \E line \in OtherLines : Apply("", line, cmd_other(doc, FirstToken(line), line))
\* a line of one token only: len(parts) < 2, parse_command returns 0 at once
Line_bare ==
    \E cmd \in BareCommands : ~doc.in_string /\ ReadLine(Line(cmd, 1, <<>>), Ret(doc, "ok"))
\* a line read in string mode: handed to parse_string as it is
Line_string ==
    \E line \in StringLines : doc.in_string /\ ReadLine(Line("", 0, line), parse_string(doc, line))

\* the end of the text: finish_data and the end-of-document checks
\* chr(b).isalnum() for a byte b
IsAlnumByte(b) ==
    b \in (48..57) \cup Letters \cup {170, 178, 179, 181, 185, 186, 188, 189, 190}
          \cup (192..214) \cup (216..246) \cup (248..255)
EndOfText ==
    /\ pc = "read_text"
    /\ doc' = finish_data(doc)
    /\ cur_line' = NoLine
    /\ pc' = IF doc.hat_format = HATV1 /\ ~doc.has_gpio_bank0 THEN "exit"
             ELSE IF doc.hat_format # HATV1 /\ doc.dt_blob # <<>>
                     /\ ~IsAlnumByte(doc.dt_blob[1]) THEN "exit"
             ELSE "parsed"
    /\ UNCHANGED <<line_count, wb, eeprom, prog, dec, crc, wr, ver>>

\* read_json_custom_data: one blob per entry of the custom_data array, its payload
\* the compact JSON text of the entry; here the entries 7 and [] ("7", "[]")
JsonFiles == {<<<<55>>, <<91, 93>>>>}
ReadJsonCustomData ==
    /\ pc = "parsed"
    /\ \E entries \in JsonFiles :
          doc' = [doc EXCEPT !.custom_blobs = @ \o entries]
    /\ pc' = "json_read"
    /\ UNCHANGED <<line_count, cur_line, wb, eeprom, prog, dec, crc, wr, ver>>

WriteBinary ==
    /\ pc \in {"parsed", "json_read"}
    /\ \E w \in {write_binary(doc)} :
          /\ wb' = [called |-> TRUE, ret |-> w.ret, image |-> w.image]
          /\ doc' = [doc EXCEPT !.atom_count = w.atom_count]
          /\ pc' = IF w.ret = 0 THEN "written" ELSE "write_failed"
    /\ UNCHANGED <<line_count, cur_line, eeprom, prog, dec, crc, wr, ver>>

\* write_binary called once more on the same object; first keeps what the first
\* invocation returned and wrote
WriteBinaryAgain ==
    /\ pc \in {"written", "write_failed"}
    /\ \E w \in {write_binary(doc)} :
          /\ wb' = [called |-> TRUE, ret |-> w.ret, image |-> w.image, first |-> wb]
          /\ doc' = [doc EXCEPT !.atom_count = w.atom_count]
          /\ pc' = "rewritten"
    /\ UNCHANGED <<line_count, cur_line, eeprom, prog, dec, crc, wr, ver>>

(***************************************************************************)
(* The device: bytes 0 .. EEPROM_SIZE-1 of the EEPROM, the range that      *)
(* parse_rpi_hat_eeprom(0x00, 256) reads.  write_eeprom_from_file erases,  *)
(* then writes the padded image page by page until the device reports an   *)
(* error.                                                                  *)
(***************************************************************************)
\* max(256, ((size + 255) // 256) * 256)
ReadSize(size) == Max(256, ((size + 255) \div 256) * 256)

Blank == Repeat(255, EEPROM_SIZE)

\* e pages erased, then k pages written, of a file padded with 0xFF
ProgramDevice(mem, file, e, k) ==
    [i \in 1..Len(mem) |->
        IF i <= k * PAGE_SIZE THEN (IF i <= Len(file) THEN file[i] ELSE 255)
        ELSE IF i <= e * PAGE_SIZE THEN 255
        ELSE mem[i]]

\* how far erase_evb_eeprom and the page loop get before the device reports an
\* error: not at all, one page, or to the end (no error)
ErasedPages(npages) == {0, npages}
WrittenPages(npages) == {0, 1, npages}

WriteEepromFromFile ==
    /\ pc = "written"
    /\ LET original_size == Len(wb.image)
           padded_size == ReadSize(original_size)
           npages == padded_size \div PAGE_SIZE
       IN \E e \in ErasedPages(npages), k \in WrittenPages(npages) :
             /\ eeprom' = ProgramDevice(eeprom, wb.image, e, k)
             /\ prog' = IF k = npages
                        THEN [called |-> TRUE, ret |-> FT_OK, written |-> original_size]
                        ELSE [called |-> TRUE, ret |-> FT_IO_ERROR, written |-> k * PAGE_SIZE]
    /\ pc' = "device"
    /\ UNCHANGED <<doc, line_count, cur_line, wb, dec, crc, wr, ver>>

(***************************************************************************)
(* Atom decoder: MaxUsbTool.parse_rpi_hat_eeprom.  dec is the state of one *)
(* call: its position, the locals, and the fields it has extracted so far  *)
(* (out, one record per atom visited).  raised: the call ended in an       *)
(* IndexError, the list index being outside eeprom_data.                   *)
(***************************************************************************)
RPI_SIGNATURE == <<82, 45, 80, 105>>

StartDec ==
    [pc |-> "read", attempt |-> 0, ret |-> 0, data |-> <<>>, header_read |-> FALSE,
     version |-> 0, numatoms |-> 0, eeplen |-> 0, curr |-> 0, atom_num |-> 0,
     out |-> <<>>, raised |-> FALSE]

U16(data, i) == At(data, i) + 256 * At(data, i + 1)
\* a | b << 8 | c << 16 | d << 24; from 2^30 on the value is represented by 2^30,
\* which like the value itself lies beyond every index of a buffer of the model
U32(data, i) ==
    IF At(data, i + 3) >= 64 THEN 1073741824
    ELSE At(data, i) + 256 * At(data, i + 1) + 65536 * At(data, i + 2)
         + 16777216 * At(data, i + 3)

\* one iteration of the read loop; r is what read_register_16bit returned
ReadStep(st, r) ==
    LET st1 == [st EXCEPT !.ret = r.ret, !.data = r.data]
        last == st.attempt = MAX_ATTEMPTS - 1
        signature == Slice(r.data, 0, 4)
    IN IF r.ret = 0 /\ Len(r.data) >= 4
       THEN IF signature = RPI_SIGNATURE \/ signature = <<255, 255, 255, 255>> \/ last
            THEN [st1 EXCEPT !.pc = "header"]
            ELSE [st1 EXCEPT !.attempt = @ + 1]
       ELSE IF r.ret # 0 THEN [st1 EXCEPT !.pc = "done"]
       ELSE IF last THEN [st1 EXCEPT !.pc = "header"]
       ELSE [st1 EXCEPT !.attempt = @ + 1]

Raise(st) == [st EXCEPT !.pc = "done", !.raised = TRUE]
Return(st, ret) == [st EXCEPT !.pc = "done", !.ret = ret]

\* a version test that lets later generations through
VersionSupportedOrNewer(version) == version >= SUPPORTED_VERSION

\* header["version"] != 0x02 is the rejection
VersionSupported(version) == version = SUPPORTED_VERSION

\* the signature test, the header dictionary and the version test
HeaderStep(st) ==
    IF Slice(st.data, 0, 4) = RPI_SIGNATURE
    THEN IF ~InRange(st.data, 11) THEN Raise(st)
         ELSE LET st1 == [st EXCEPT !.header_read = TRUE,
                                    !.version = At(st.data, 4),
                                    !.numatoms = U16(st.data, 6),
                                    !.eeplen = U32(st.data, 8)]
              IN IF ~VersionSupported(st1.version) THEN Return(st1, -1)
                 ELSE [st1 EXCEPT !.pc = "atoms", !.curr = FIRST_ATOM_OFFSET]
    ELSE Return(st, st.ret)

\* overlay_len / custom_data_len = atom_dlen - 2
PayloadLen(atom_dlen) == atom_dlen - 2

\* an advance that takes the checksum to lie outside the data length
NextAtomAddressPlusCrc(curr_address, atom_dlen) ==
    curr_address + ATOM_HEADER_SIZE + atom_dlen + CRC_LEN

\* curr_address += ATOM_HEADER_SIZE + atom_dlen
NextAtomAddress(curr_address, atom_dlen) == curr_address + ATOM_HEADER_SIZE + atom_dlen

AtomRecord(offset, atom_type, index, dlen) ==
    [offset |-> offset, type |-> atom_type, index |-> index, dlen |-> dlen,
     uuid |-> <<>>, product_id |-> 0, product_version |-> 0,
     vendor |-> <<>>, product |-> <<>>, payload |-> <<>>]

\* one iteration of the loop over the atoms
AtomStep(st) ==
    LET data == st.data
        curr_address == st.curr
    IN IF ~InRange(data, curr_address + 7) THEN Raise(st)
       ELSE
       LET atom_type == U16(data, curr_address)
           atom_count == U16(data, curr_address + 2)
           atom_dlen == U32(data, curr_address + 4)
           data_start == curr_address + ATOM_HEADER_SIZE
           rec == AtomRecord(curr_address, atom_type, atom_count, atom_dlen)
           next == [st EXCEPT !.curr = NextAtomAddress(curr_address, atom_dlen),
                              !.atom_num = @ + 1]
       IN IF atom_type = ATOM_VENDOR
          THEN IF ~InRange(data, data_start + 21) THEN Raise(st)
               ELSE LET vendor_len == At(data, data_start + 20)
                        product_len == At(data, data_start + 21)
                        vendor_start == data_start + 22
                        product_start == vendor_start + vendor_len
                    IN [next EXCEPT !.out = Append(@,
                          [rec EXCEPT !.uuid = Slice(data, data_start, data_start + 16),
                                      !.product_id = U16(data, data_start + 16),
                                      !.product_version = U16(data, data_start + 18),
                                      !.vendor = Slice(data, vendor_start, vendor_start + vendor_len),
                                      !.product = Slice(data, product_start, product_start + product_len)])]
          ELSE IF atom_type = ATOM_DT \/ atom_type = ATOM_CUSTOM
          THEN [next EXCEPT !.out = Append(@,
                  [rec EXCEPT !.payload = Slice(data, data_start, data_start + PayloadLen(atom_dlen))])]
          ELSE [next EXCEPT !.out = Append(@, rec)]

\* the step of a call that has its buffer: header, the next atom, or the return
DecodeStep(st) ==
    IF st.pc = "header" THEN HeaderStep(st)
    ELSE IF st.atom_num < st.numatoms THEN AtomStep(st)
    ELSE Return(st, st.ret)

\* at most n steps of the call, stopping when it has ended
RECURSIVE DecodeSteps(_, _)
DecodeSteps(st, n) ==
    IF n <= 0 \/ st.pc = "done" THEN st
    ELSE IF n = 1 THEN DecodeStep(st)
    ELSE DecodeSteps(DecodeSteps(st, n \div 2), n - (n \div 2))

\* the call run to its end: the header, at most one atom per ATOM_HEADER_SIZE bytes
\* of the buffer plus the one that raises, and the return
DecodeRun(st) == DecodeSteps(st, (Len(st.data) \div ATOM_HEADER_SIZE) + 3)

\* read_register_16bit(start_addr, read_size): the device answers or fails
DeviceReads(mem) ==
    {[ret |-> FT_OK, data |-> Slice(mem, START_ADDR, START_ADDR + ReadSize(EEPROM_SIZE))],
     [ret |-> FT_IO_ERROR, data |-> <<>>]}

ParseRead ==
    /\ pc = "device"
    /\ dec.pc = "read"
    /\ \E r \in DeviceReads(eeprom) : dec' = ReadStep(dec, r)
    /\ UNCHANGED <<pc, doc, line_count, cur_line, wb, eeprom, prog, crc, wr, ver>>

ParseHeader ==
    /\ pc = "device"
    /\ dec.pc = "header"
    /\ dec' = HeaderStep(dec)
    /\ UNCHANGED <<pc, doc, line_count, cur_line, wb, eeprom, prog, crc, wr, ver>>

ParseAtom ==
    /\ pc = "device"
    /\ dec.pc = "atoms"
    /\ dec.atom_num < dec.numatoms
    /\ dec' = AtomStep(dec)
    /\ UNCHANGED <<pc, doc, line_count, cur_line, wb, eeprom, prog, crc, wr, ver>>

ParseReturn ==
    /\ pc = "device"
    /\ dec.pc = "atoms"
    /\ dec.atom_num >= dec.numatoms
    /\ dec' = Return(dec, dec.ret)
    /\ UNCHANGED <<pc, doc, line_count, cur_line, wb, eeprom, prog, crc, wr, ver>>

(***************************************************************************)
(* Device contents the tool may find when it is asked to parse an EEPROM   *)
(* it did not program itself: blank, foreign, a legacy image, well-formed  *)
(* images with atom types this decoder does not know, and damaged images.  *)
(***************************************************************************)
Pad(bytes, fill) == bytes \o Repeat(fill, EEPROM_SIZE - Len(bytes))

FoundHeader(version, numatoms, body) ==
    LE32(HEADER_SIGN) \o <<version, 0>> \o LE16(numatoms) \o LE32(FIRST_ATOM_OFFSET + Len(body))

FoundImage(version, numatoms, body, fill) ==
    Pad(FoundHeader(version, numatoms, body) \o body, fill)

\* a vendor payload: serial, pid 0x1234, pver 1, the strings "AB" and "C"
FoundVendorData ==
    LE32(1) \o LE32(2) \o LE32(3) \o LE32(4) \o LE16(4660) \o LE16(1) \o <<2, 1>> \o <<65, 66, 67>>
\* the same payload with a vendor length byte that overruns the payload
OverlongVendorData ==
    LE32(1) \o LE32(2) \o LE32(3) \o LE32(4) \o LE16(4660) \o LE16(1) \o <<4, 1>> \o <<65, 66, 67>>

FoundImages ==
    { Blank,
      Repeat(0, EEPROM_SIZE),
      FoundImage(HATV1, 1, write_complete_atom(ATOM_VENDOR, 0, FoundVendorData), 255),
      FoundImage(3, 1, write_complete_atom(ATOM_VENDOR, 0, FoundVendorData), 255),
      FoundImage(HATPLUS, 3,
                 write_complete_atom(ATOM_VENDOR, 0, FoundVendorData)
                 \o write_complete_atom(119, 1, <<1, 2, 3>>)
                 \o write_complete_atom(ATOM_CUSTOM, 2, <<123, 125>>), 255),
      FoundImage(HATPLUS, 3,
                 write_complete_atom(ATOM_POWER_SUPPLY, 0, LE32(500))
                 \o write_complete_atom(ATOM_DT, 1, <<111, 118>>)
                 \o write_complete_atom(ATOM_GPIO, 2, Repeat(0, 30)), 255),
      FoundImage(HATPLUS, 40, <<>>, 0),
      FoundImage(HATPLUS, 2,
                 write_complete_atom(ATOM_VENDOR, 0, FoundVendorData)
                 \o LE16(ATOM_CUSTOM) \o LE16(1) \o <<255, 255, 255, 255>>, 255),
      FoundImage(HATPLUS, 3,
                 write_complete_atom(ATOM_VENDOR, 0, FoundVendorData)
                 \o LE16(ATOM_CUSTOM) \o LE16(1) \o LE32(300) \o <<65, 66>>, 255),
      FoundImage(HATPLUS, 2,
                 write_complete_atom(ATOM_VENDOR, 0, OverlongVendorData)
                 \o write_complete_atom(ATOM_CUSTOM, 1, <<65>>), 255),
      FoundImage(HATPLUS, 2,
                 LE16(ATOM_DT) \o LE16(0) \o LE32(1) \o <<9>>
                 \o write_complete_atom(ATOM_DT, 1, <<111>>), 255) }

(***************************************************************************)
(* The state machine.  A run either builds a Document from a directive     *)
(* text (format V1 or HAT+), encodes it, programs the blank device and     *)
(* parses it back, or parses a device found as it is.                      *)
(***************************************************************************)
Init ==
    /\ line_count = 0
    /\ cur_line = NoLine
    /\ crc = NoCrc
    /\ wr = NoWr
    /\ ver = NoVer
    /\ wb = NoWrite
    /\ prog = NoProgram
    /\ dec = StartDec
    /\ \/ /\ pc = "read_text"
          /\ \E fmt \in {HATV1, HATPLUS} : doc = NewEepMake(fmt)
          /\ eeprom = Blank
       \/ /\ pc = "device"
          /\ doc = NewEepMake(HATPLUS)
          /\ eeprom \in FoundImages

Next ==
    \/ Line_product_uuid
    \/ Line_product_id
    \/ Line_product_ver
    \/ Line_vendor
    \/ Line_product
    \/ Line_current_supply
    \/ Line_gpio_drive
    \/ Line_gpio_slew
    \/ Line_gpio_hysteresis
    \/ Line_back_power
    \/ Line_setgpio
    \/ Line_custom_data
    \/ Line_end
    \/ Line_dt_blob
    \/ Line_other
    \/ Line_bare
    \/ Line_string
    \/ EndOfText
    \/ ReadJsonCustomData
    \/ WriteBinary
    \/ WriteBinaryAgain
    \/ WriteEepromFromFile
    \/ ParseRead
    \/ ParseHeader
    \/ ParseAtom
    \/ ParseReturn

Spec == Init /\ [][Next]_vars

(***************************************************************************)
(* calculate_crc16 on its own: a byte sequence is drawn, the function is   *)
(* called on it MaxCrcCalls times, crc keeps the input and what each call  *)
(* returned.                                                               *)
(***************************************************************************)
CrcInputs ==
    UNION {[1..n -> CrcBytes] : n \in 0..MaxCrcLen} \cup {<<65, 66, 67>>}

InitCrc ==
    /\ pc = "crc"
    /\ crc \in {[data |-> data, results |-> <<>>] : data \in CrcInputs}
    /\ doc = NewEepMake(HATPLUS)
    /\ line_count = 0
    /\ cur_line = NoLine
    /\ wb = NoWrite
    /\ prog = NoProgram
    /\ dec = StartDec
    /\ eeprom = Blank
    /\ wr = NoWr
    /\ ver = NoVer

CrcCall ==
    /\ pc = "crc"
    /\ Len(crc.results) < MaxCrcCalls
    /\ crc' = [crc EXCEPT !.results = Append(@, calculate_crc16(crc.data))]
    /\ UNCHANGED <<pc, doc, line_count, cur_line, wb, eeprom, prog, dec, wr, ver>>

NextCrc == CrcCall

SpecCrc == InitCrc /\ [][NextCrc]_vars

(***************************************************************************)
(* read_text on data-carrying text alone: the HAT+ object EepMake() builds *)
(* reads custom_data lines with one-line strings of every kind, data       *)
(* lines, lines of one token, string-mode lines and the directives that    *)
(* own a byte sequence (vendor, product, dt_blob), up to the end of text.  *)
(***************************************************************************)
\* one-line strings, tab written <T>, the controls 0x01 and 0x0b <01> <0B>:
\*   "\r"  "\\"  "\""  "\n"  "\t"  "\0"  "\q"
\*   "a<T>b"  "a<T>\n"  "<01>"  "<01>\n"  "<0B>"  "AB
StringPayloads ==
    {<<34, 92, 114, 34>>, <<34, 92, 92, 34>>, <<34, 92, 34, 34>>, <<34, 92, 110, 34>>,
     <<34, 92, 116, 34>>, <<34, 92, 48, 34>>, <<34, 92, 113, 34>>,
     <<34, 97, 9, 98, 34>>, <<34, 97, 9, 92, 110, 34>>, <<34, 1, 34>>,
     <<34, 1, 92, 110, 34>>, <<34, 11, 34>>, <<34, 65, 66>>}
\* lines of one token that is no command: 0a0b, 4142, foo
TokenLines == {<<48, 97, 48, 98>>, <<52, 49, 52, 50>>, <<102, 111, 111>>}

Line_custom_data_string ==
    \E payload \in StringPayloads : Apply("custom_data", payload, cmd_custom_data(doc, payload))
\* a line of one token that is no command: len(parts) < 2 as well
Line_token ==
    \E tok \in TokenLines : ~doc.in_string /\ ReadLine(Line("", 1, tok), Ret(doc, "ok"))

InitData ==
    /\ pc = "read_text"
    /\ doc = NewEepMake(HATPLUS)
    /\ line_count = 0
    /\ cur_line = NoLine
    /\ crc = NoCrc
    /\ wr = NoWr
    /\ ver = NoVer
    /\ wb = NoWrite
    /\ prog = NoProgram
    /\ dec = StartDec
    /\ eeprom = Blank

NextData ==
    \/ Line_vendor
    \/ Line_product
    \/ Line_dt_blob
    \/ Line_custom_data
    \/ Line_custom_data_string
    \/ Line_end
    \/ Line_other
    \/ Line_bare
    \/ Line_token
    \/ Line_string
    \/ EndOfText

SpecData == InitData /\ [][NextData]_vars

(***************************************************************************)
(* read_text on the GPIO directives of a V1 object, the arguments of each  *)
(* line kept in cur_line.data.                                             *)
(***************************************************************************)
\* the words a setgpio line may give for function and pull; the last of each
\* is no word the code knows
FnWords == <<"INPUT", "OUTPUT", "ALT0", "ALT1", "ALT2", "ALT3", "ALT4", "ALT5", "FOO">>
PullWords == <<"DEFAULT", "UP", "DOWN", "NONE", "SIDE">>
\* setgpio arguments <<pin, position in FnWords, position in PullWords>>: every
\* function on pins 27 and 28, one setting on the pins at and beside the ends
\* of the range, an unknown function, an unknown pull
SetGpioArgs ==
    {<<p, f, ((f - 1) % 4) + 1>> : p \in {27, 28}, f \in 1..8}
        \cup {<<p, 2, 2>> : p \in {1, 2, 45, 46}}
        \cup {<<27, 9, 1>>, <<28, 1, 5>>}
\* int(args.split()[0], 16) of the argument of gpio_drive, gpio_slew, gpio_hysteresis
DriveArgs == {-1, 0, 1, 2, 8, 9, 15}
SlewArgs == {0, 1, 2, 3}
HysteresisArgs == {0, 1, 2, 3}

Line_setgpio_args ==
    \E a \in SetGpioArgs :
        /\ ~doc.in_string
        /\ ReadLine(Line("setgpio", 2, a),
                    cmd_setgpio(doc, 3, IntOf(a[1]), FnWords[a[2]], PullWords[a[3]]))
Line_gpio_drive_arg ==
    \E v \in DriveArgs :
        ~doc.in_string /\ ReadLine(Line("gpio_drive", 2, <<v>>), cmd_gpio_drive(doc, IntOf(v)))
Line_gpio_slew_arg ==
    \E v \in SlewArgs :
        ~doc.in_string /\ ReadLine(Line("gpio_slew", 2, <<v>>), cmd_gpio_slew(doc, IntOf(v)))
Line_gpio_hysteresis_arg ==
    \E v \in HysteresisArgs :
        /\ ~doc.in_string
        /\ ReadLine(Line("gpio_hysteresis", 2, <<v>>), cmd_gpio_hysteresis(doc, IntOf(v)))

InitGpio ==
    /\ pc = "read_text"
    /\ doc = NewEepMake(HATV1)
    /\ line_count = 0
    /\ cur_line = NoLine
    /\ crc = NoCrc
    /\ wr = NoWr
    /\ ver = NoVer
    /\ wb = NoWrite
    /\ prog = NoProgram
    /\ dec = StartDec
    /\ eeprom = Blank

NextGpio ==
    \/ Line_setgpio_args
    \/ Line_gpio_drive_arg
    \/ Line_gpio_slew_arg
    \/ Line_gpio_hysteresis_arg
    \/ Line_back_power
    \/ Line_bare
    \/ EndOfText

SpecGpio == InitGpio /\ [][NextGpio]_vars

(***************************************************************************)
(* MaxUsbTool.write_eeprom_from_file, one action per step: the file is     *)
(* read and padded and the device erased, then one action per iteration of *)
(* the page loop, the device accepting the write or reporting an error.    *)
(* wr is the state of the call: its arguments, its locals, the page writes *)
(* issued so far (address and length of each) and the tuple it returned.   *)
(* The device is a 24C32: EEPROM_BYTES bytes.                              *)
(***************************************************************************)
EEPROM_BYTES == 4096

\* the content of a file of n bytes
FileOf(n) == [i \in 1..n |-> (7 * i) % 251]
FileSizes == {0, 1, 33, 256, 257}
StartAddrs == {0, 16}

\* a write of bytes at address addr the device has accepted
StoreAt(mem, addr, bytes) ==
    [i \in 1..Len(mem) |->
        IF i - 1 >= addr /\ i - 1 < addr + Len(bytes) THEN bytes[i - addr] ELSE mem[i]]

\* data + bytes([0xFF] * (padded_size - original_size))
PaddedData(file) == file \o Repeat(255, ReadSize(Len(file)) - Len(file))

\* every page write as long as a page, wherever it starts
BytesToWriteWholePage(addr, start_addr, len) == PAGE_SIZE

\* bytes_to_write = min(bytes_remaining_in_page, bytes_remaining_total)
BytesToWrite(addr, start_addr, len) ==
    LET page_start == (addr \div PAGE_SIZE) * PAGE_SIZE
        page_end == page_start + PAGE_SIZE
    IN Min(page_end - addr, len - (addr - start_addr))

\* erase_evb_eeprom(bytes_to_erase), the device failing after e pages
EraseEvbEeprom(mem, bytes_to_erase, e) ==
    StoreAt(mem, 0, Repeat(255, Min(bytes_to_erase, e * PAGE_SIZE)))

InitWrite ==
    /\ pc = "program"
    /\ \E n \in FileSizes, a \in StartAddrs, found \in BOOLEAN :
          wr = [NoWr EXCEPT !.pc = "open", !.start_addr = a, !.found = found,
                            !.file = FileOf(n)]
    /\ eeprom = Repeat(0, EEPROM_BYTES)
    /\ doc = NewEepMake(HATPLUS)
    /\ line_count = 0
    /\ cur_line = NoLine
    /\ crc = NoCrc
    /\ ver = NoVer
    /\ wb = NoWrite
    /\ prog = NoProgram
    /\ dec = StartDec

\* open and read the file, pad, erase; (1, 0) when the file is not there
WriteOpen ==
    /\ pc = "program"
    /\ wr.pc = "open"
    /\ IF ~wr.found
       THEN /\ wr' = [wr EXCEPT !.pc = "done", !.ret = <<1, 0>>]
            /\ UNCHANGED eeprom
       ELSE \E e \in ErasedPages(ReadSize(Len(wr.file)) \div PAGE_SIZE) :
               /\ eeprom' = EraseEvbEeprom(eeprom, ReadSize(Len(wr.file)), e)
               /\ wr' = [wr EXCEPT !.pc = "loop", !.data = PaddedData(wr.file),
                                   !.addr = wr.start_addr, !.total_written = 0]
    /\ UNCHANGED <<pc, doc, line_count, cur_line, wb, prog, dec, crc, ver>>

\* one iteration of the while loop; ret is what I2C_DeviceWrite returned
WritePage ==
    /\ pc = "program"
    /\ wr.pc = "loop"
    /\ wr.addr < wr.start_addr + Len(wr.data)
    /\ \E ret \in {FT_OK, FT_IO_ERROR} :
          LET bytes_to_write == BytesToWrite(wr.addr, wr.start_addr, Len(wr.data))
              offset == wr.addr - wr.start_addr
              page_data == Slice(wr.data, offset, offset + bytes_to_write)
          IN IF ret # 0
             THEN /\ wr' = [wr EXCEPT !.pc = "done", !.ret = <<ret, wr.total_written>>,
                                      !.writes = Append(@, [addr |-> wr.addr,
                                                            len |-> bytes_to_write,
                                                            ret |-> ret])]
                  /\ UNCHANGED eeprom
             ELSE /\ wr' = [wr EXCEPT !.total_written = @ + bytes_to_write,
                                      !.addr = @ + bytes_to_write,
                                      !.writes = Append(@, [addr |-> wr.addr,
                                                            len |-> bytes_to_write,
                                                            ret |-> ret])]
                  /\ eeprom' = StoreAt(eeprom, wr.addr, page_data)
    /\ UNCHANGED <<pc, doc, line_count, cur_line, wb, prog, dec, crc, ver>>

\* the loop has ended: return (0, original_size)
WriteReturn ==
    /\ pc = "program"
    /\ wr.pc = "loop"
    /\ ~(wr.addr < wr.start_addr + Len(wr.data))
    /\ wr' = [wr EXCEPT !.pc = "done", !.ret = <<0, Len(wr.file)>>]
    /\ UNCHANGED <<pc, doc, line_count, cur_line, wb, eeprom, prog, dec, crc, ver>>

NextWrite ==
    \/ WriteOpen
    \/ WritePage
    \/ WriteReturn

SpecWrite == InitWrite /\ [][NextWrite]_vars

(***************************************************************************)
(* MaxUsbTool.verify_eeprom_write, one action per read attempt.  ver is    *)
(* the state of the call: its arguments, its locals, what it returned      *)
(* (result), and good: some read so far returned status 0 and at least     *)
(* len(original_data) bytes, each equal to the byte of the file at the     *)
(* same offset.                                                            *)
(***************************************************************************)
VerifyFileSizes == {0, 1, 33}

\* what the device holds when the call is made: the file as written, the file
\* with its last byte wrong, or nothing of it
VerifyDevices(file, start_addr) ==
    LET erased == Repeat(255, EEPROM_BYTES)
    IN {StoreAt(erased, start_addr, file),
        StoreAt(erased, start_addr, [file EXCEPT ![Len(file)] = 255 - @]),
        erased}

\* read_register_16bit(start_addr, num_bytes): the status and the bytes read,
\* which may be fewer than asked for (read_buf[:bytes_read.value]); flen is the
\* length of the file, one of the short reads stops one byte before it
VerifyReads(mem, start_addr, num_bytes, flen) ==
    LET full == Slice(mem, start_addr, start_addr + num_bytes)
    IN {[ret |-> FT_OK, data |-> full],
        [ret |-> FT_OK, data |-> Slice(full, 0, flen - 1)],
        [ret |-> FT_OK, data |-> <<>>],
        [ret |-> FT_IO_ERROR, data |-> <<>>],
        [ret |-> FT_IO_ERROR, data |-> full]}

\* the offsets the loop over zip(original_data, readback_data) reports
Mismatches(original_data, readback_data) ==
    {i \in 0..(Min(Len(original_data), Len(readback_data)) - 1) :
        original_data[i + 1] # readback_data[i + 1]}

InitVerify ==
    /\ pc = "verify"
    /\ \E n \in VerifyFileSizes, a \in StartAddrs, found \in BOOLEAN :
          /\ ver = [NoVer EXCEPT !.pc = "open", !.start_addr = a, !.found = found,
                                 !.original_data = FileOf(n)]
          /\ eeprom \in VerifyDevices(FileOf(n), a)
    /\ doc = NewEepMake(HATPLUS)
    /\ line_count = 0
    /\ cur_line = NoLine
    /\ crc = NoCrc
    /\ wr = NoWr
    /\ wb = NoWrite
    /\ prog = NoProgram
    /\ dec = StartDec

\* open and read the file; False when it is not there
VerifyOpen ==
    /\ pc = "verify"
    /\ ver.pc = "open"
    /\ ver' = IF ver.found THEN [ver EXCEPT !.pc = "loop"]
              ELSE [ver EXCEPT !.pc = "done", !.result = FALSE]
    /\ UNCHANGED <<pc, doc, line_count, cur_line, wb, eeprom, prog, dec, crc, wr>>

\* one iteration of the for loop, and the return that follows its break or its
\* last iteration
VerifyRead ==
    /\ pc = "verify"
    /\ ver.pc = "loop"
    /\ ver.attempt < MAX_ATTEMPTS
    /\ \E r \in VerifyReads(eeprom, ver.start_addr, ReadSize(Len(ver.original_data)),
                            Len(ver.original_data)) :
          LET readback_data == Slice(r.data, 0, Len(ver.original_data))
              mismatches == Mismatches(ver.original_data, readback_data)
              last == ver.attempt = MAX_ATTEMPTS - 1
              v1 == [ver EXCEPT !.ret = r.ret, !.data_list = r.data,
                                !.good = @ \/ (/\ r.ret = 0
                                               /\ Len(r.data) >= Len(ver.original_data)
                                               /\ \A i \in 1..Len(ver.original_data) :
                                                     r.data[i] = ver.original_data[i])]
          IN ver' = IF r.ret # 0
                    THEN IF last THEN [v1 EXCEPT !.pc = "done", !.result = FALSE]
                         ELSE [v1 EXCEPT !.attempt = @ + 1]
                    ELSE IF mismatches = {}
                         THEN [v1 EXCEPT !.pc = "done", !.mismatches = mismatches,
                                         !.result = TRUE]
                    ELSE IF last
                         THEN [v1 EXCEPT !.pc = "done", !.mismatches = mismatches,
                                         !.result = FALSE]
                    ELSE [v1 EXCEPT !.attempt = @ + 1, !.mismatches = mismatches]
    /\ UNCHANGED <<pc, doc, line_count, cur_line, wb, eeprom, prog, dec, crc, wr>>

NextVerify ==
    \/ VerifyOpen
    \/ VerifyRead

SpecVerify == InitVerify /\ [][NextVerify]_vars

(***************************************************************************)
(* Observations the properties are stated with.                            *)
(***************************************************************************)
\* the atoms framed in an image from offset off on: each read from its own
\* 8-byte header, the next one looked for 8 + dlen bytes further
RECURSIVE ImageAtoms(_, _)
ImageAtoms(image, off) ==
    IF off + ATOM_HEADER_SIZE > Len(image) THEN <<>>
    ELSE LET dlen == U32(image, off + 4)
             end == off + ATOM_HEADER_SIZE + dlen
         IN <<[offset |-> off,
               type |-> U16(image, off),
               count |-> U16(image, off + 2),
               dlen |-> dlen,
               payload |-> Slice(image, off + ATOM_HEADER_SIZE, end - CRC_LEN),
               crc |-> Slice(image, end - CRC_LEN, end),
               end |-> end]>>
            \o ImageAtoms(image, end)

WrittenAtoms == ImageAtoms(wb.image, FIRST_ATOM_OFFSET)

\* write_binary is about to be called or has been called on doc
AtWrite == pc \in {"parsed", "json_read", "written", "write_failed"}
\* write_binary has just returned
AfterWrite == pc \in {"written", "write_failed"}

\* the Document with its four presence flags set every possible way
FlagCombos(d) ==
    {[d EXCEPT !.has_gpio_bank0 = b0, !.has_dt = dt,
               !.has_gpio_bank1 = b1, !.has_power_supply = ps] :
        b0 \in BOOLEAN, dt \in BOOLEAN, b1 \in BOOLEAN, ps \in BOOLEAN}

RECURSIVE FramedLength(_)
FramedLength(jobs) ==
    IF jobs = <<>> THEN 0
    ELSE ATOM_HEADER_SIZE + Len(Head(jobs).data) + CRC_LEN + FramedLength(Tail(jobs))

TypesOf(atoms) == [i \in 1..Len(atoms) |-> atoms[i].type]

\* the place of an atom type in the order of the format
Rank(atom_type) ==
    CASE atom_type = ATOM_VENDOR -> 0
      [] atom_type = ATOM_GPIO -> 1
      [] atom_type = ATOM_DT -> 2
      [] atom_type = ATOM_CUSTOM -> 3
      [] atom_type = ATOM_GPIO_BANK1 -> 4
      [] atom_type = ATOM_POWER_SUPPLY -> 5
      [] OTHER -> 6

\* vendor first, no later kind before an earlier one, one atom of each kind
\* except the custom blobs
InFixedOrder(types) ==
    /\ types # <<>> => types[1] = ATOM_VENDOR
    /\ \A i \in 1..Len(types) : \A j \in 1..Len(types) :
          i < j => \/ Rank(types[i]) < Rank(types[j])
                   \/ types[i] = ATOM_CUSTOM /\ types[j] = ATOM_CUSTOM

Has(types, atom_type) == \E i \in 1..Len(types) : types[i] = atom_type

IsCustomJob(j) == j.type = ATOM_CUSTOM
IsCustomAtom(a) == a.type = ATOM_CUSTOM

(***************************************************************************)
(* C2.  Length invariant: whenever write_binary returns 0, the 32-bit      *)
(* little-endian field at byte offset 8 of the image equals the byte       *)
(* length of the image, which is 12 plus, for every atom emitted,          *)
(* 8 + payload length + 2; the placeholder ff ff ff ff is not left there.  *)
(***************************************************************************)
C2_LengthInvariant ==
    (wb.called /\ wb.ret = 0) =>
        /\ Len(wb.image) = FIRST_ATOM_OFFSET + FramedLength(AtomJobs(doc))
        /\ U32(wb.image, EEPLEN_INDEX) = Len(wb.image)
        /\ Slice(wb.image, EEPLEN_INDEX, EEPLEN_INDEX + 4) # <<255, 255, 255, 255>>

\* a successful write of vendor, custom and power-supply atoms
C2_Witness ==
    /\ pc = "written"
    /\ wb.ret = 0
    /\ doc.has_power_supply
    /\ Len(doc.custom_blobs) >= 2
    /\ U32(wb.image, EEPLEN_INDEX) > FIRST_ATOM_OFFSET

C4_AtomOrder ==
    /\ AtWrite =>
          \A d \in FlagCombos(doc) :
             LET jobs == AtomJobs(d)
                 types == TypesOf(jobs)
                 customs == SelectSeq(jobs, IsCustomJob)
             IN /\ types[1] = ATOM_VENDOR
                /\ InFixedOrder(types)
                /\ Has(types, ATOM_GPIO) <=> d.has_gpio_bank0
                /\ Has(types, ATOM_DT) <=> d.has_dt
                /\ Has(types, ATOM_GPIO_BANK1) <=> d.has_gpio_bank1
                /\ Has(types, ATOM_POWER_SUPPLY) <=> d.has_power_supply
                /\ [i \in 1..Len(customs) |-> customs[i].data] = d.custom_blobs
    /\ AfterWrite =>
          LET types == TypesOf(WrittenAtoms)
              customs == SelectSeq(WrittenAtoms, IsCustomAtom)
          IN /\ InFixedOrder(types)
             /\ wb.ret = 0 =>
                   /\ types[1] = ATOM_VENDOR
                   /\ Has(types, ATOM_GPIO) <=> doc.has_gpio_bank0
                   /\ Has(types, ATOM_DT) <=> doc.has_dt
                   /\ Has(types, ATOM_GPIO_BANK1) <=> doc.has_gpio_bank1
                   /\ Has(types, ATOM_POWER_SUPPLY) <=> doc.has_power_supply
                   /\ [i \in 1..Len(customs) |-> customs[i].payload] = doc.custom_blobs

\* an image holding vendor, GPIO bank 0, two different custom blobs and GPIO bank 1
C4_Witness ==
    /\ pc = "written"
    /\ Len(doc.custom_blobs) >= 2
    /\ doc.custom_blobs[1] # doc.custom_blobs[2]
    /\ LET types == TypesOf(WrittenAtoms)
       IN /\ Len(types) >= 5
          /\ types[1] = ATOM_VENDOR
          /\ types[2] = ATOM_GPIO
          /\ types[3] = ATOM_CUSTOM
          /\ types[Len(types)] = ATOM_GPIO_BANK1

(***************************************************************************)
(* C5.  Atom framing: every atom the encoder writes is an 8-byte header    *)
(* (type, running index, data length) whose data length is                 *)
(* len(payload) + 2, then the payload, then the CRC16 of the payload bytes *)
(* alone as 2 little-endian bytes; the atoms follow one another from       *)
(* offset 12 to the end of the image.                                      *)
(***************************************************************************)
C5_AtomFraming ==
    (AfterWrite /\ wb.image # <<>>) =>
        LET atoms == WrittenAtoms
            jobs == AtomJobs(doc)
        IN /\ Len(atoms) <= Len(jobs)
           /\ wb.ret = 0 => Len(atoms) = Len(jobs)
           /\ \A i \in 1..Len(atoms) :
                 /\ atoms[i].offset =
                       (IF i = 1 THEN FIRST_ATOM_OFFSET ELSE atoms[i - 1].end)
                 /\ atoms[i].type = jobs[i].type
                 /\ atoms[i].count = i - 1
                 /\ atoms[i].dlen = Len(jobs[i].data) + 2
                 /\ atoms[i].payload = jobs[i].data
                 /\ atoms[i].crc = LE16(calculate_crc16(jobs[i].data))
           /\ Len(wb.image) =
                 (IF atoms = <<>> THEN FIRST_ATOM_OFFSET ELSE atoms[Len(atoms)].end)

\* a written image whose second atom carries a payload of at least two bytes
\* and a checksum that is not zero
C5_Witness ==
    /\ pc = "written"
    /\ Len(WrittenAtoms) >= 2
    /\ Len(WrittenAtoms[2].payload) >= 2
    /\ WrittenAtoms[2].dlen = Len(WrittenAtoms[2].payload) + 2
    /\ WrittenAtoms[2].crc # <<0, 0>>

(***************************************************************************)
(* Observations of a parse_rpi_hat_eeprom call.                            *)
(***************************************************************************)
\* the call has ended and had a buffer to look at
Decoded == pc = "device" /\ dec.pc = "done" /\ dec.data # <<>>
ValidSignature(data) == Slice(data, 0, 4) = RPI_SIGNATURE

\* what the call ended with and the fields it extracted
Outcome(st) == [ret |-> st.ret, raised |-> st.raised, out |-> st.out]

\* the extracted payloads of the atoms of one type, in the order visited
Payloads(out, atom_type) ==
    LET sel == SelectSeq(out, LAMBDA r : r.type = atom_type)
    IN [i \in 1..Len(sel) |-> sel[i].payload]

\* the fields of a Document as the image carries them
DocFields(d) ==
    [vendor |-> <<[uuid |-> LE32(d.vinf.serial[1]) \o LE32(d.vinf.serial[2])
                            \o LE32(d.vinf.serial[3]) \o LE32(d.vinf.serial[4]),
                   product_id |-> d.vinf.pid,
                   product_version |-> d.vinf.pver,
                   vendor |-> Utf8(d.vinf.vstr),
                   product |-> Utf8(d.vinf.pstr)]>>,
     gpio_bank0 |-> IF d.has_gpio_bank0
                    THEN <<GpioData(d.gpiomap_bank0, GPIO_COUNT)>> ELSE <<>>,
     gpio_bank1 |-> IF d.has_gpio_bank1
                    THEN <<GpioData(d.gpiomap_bank1, GPIO_COUNT_BANK1)>> ELSE <<>>,
     dt |-> IF d.has_dt THEN <<d.dt_blob>> ELSE <<>>,
     custom |-> d.custom_blobs,
     power_supply |-> IF d.has_power_supply THEN <<LE32(d.power_supply)>> ELSE <<>>]

\* the same fields as the atom walk extracted them
DecodedFields(out) ==
    LET v == SelectSeq(out, LAMBDA r : r.type = ATOM_VENDOR)
    IN [vendor |-> [i \in 1..Len(v) |->
                      [uuid |-> v[i].uuid,
                       product_id |-> v[i].product_id,
                       product_version |-> v[i].product_version,
                       vendor |-> v[i].vendor,
                       product |-> v[i].product]],
        gpio_bank0 |-> Payloads(out, ATOM_GPIO),
        gpio_bank1 |-> Payloads(out, ATOM_GPIO_BANK1),
        dt |-> Payloads(out, ATOM_DT),
        custom |-> Payloads(out, ATOM_CUSTOM),
        power_supply |-> Payloads(out, ATOM_POWER_SUPPLY)]

\* the atoms the header declares all lie inside the buffer
RECURSIVE AtomsFit(_, _, _)
AtomsFit(data, off, n) ==
    IF n = 0 THEN TRUE
    ELSE IF off + ATOM_HEADER_SIZE > Len(data) THEN FALSE
    ELSE LET end == off + ATOM_HEADER_SIZE + U32(data, off + 4)
         IN end <= Len(data) /\ AtomsFit(data, end, n - 1)

\* where the atoms the header declares end, for those that hold their two
\* checksum bytes inside the buffer
RECURSIVE CrcEnds(_, _, _)
CrcEnds(data, off, n) ==
    IF n = 0 \/ off + ATOM_HEADER_SIZE > Len(data) THEN {}
    ELSE LET dlen == U32(data, off + 4)
             end == off + ATOM_HEADER_SIZE + dlen
         IN (IF dlen >= CRC_LEN /\ end <= Len(data) THEN {end} ELSE {})
            \cup CrcEnds(data, end, n - 1)

\* the buffer with the two checksum bytes before each of the ends changed
CrcChanged(data, ends) ==
    [i \in 1..Len(data) |->
        IF \E e \in ends : i = e - 1 \/ i = e THEN 255 - data[i] ELSE data[i]]

\* the types the decoder has a branch for
KnownTypes == {ATOM_VENDOR, ATOM_GPIO, ATOM_DT, ATOM_CUSTOM}

(***************************************************************************)
(* C1.  Round trip: for every Document read_text accepts, the atom walk of *)
(* parse_rpi_hat_eeprom over the image write_binary produced succeeds and  *)
(* reproduces the VendorInfo (serial words, pid, pver, vendor and product  *)
(* strings), both GPIO maps, the device-tree name, every custom blob in    *)
(* insertion order and the power-supply value.  Stated for the Documents  *)
(* of the HAT+ format, the generation the atom walk accepts.               *)
(***************************************************************************)
C1_RoundTrip ==
    (Decoded /\ doc.hat_format = HATPLUS
       /\ wb.called /\ wb.ret = 0 /\ prog.called /\ prog.ret = FT_OK) =>
        /\ dec.ret = 0
        /\ ~dec.raised
        /\ DecodedFields(dec.out) = DocFields(doc)

(***************************************************************************)
(* C6.  Bounds rejection: for a buffer with a valid signature and version  *)
(* whose declared atom count, or some atom's declared data length, takes   *)
(* the decoder past the end of the buffer, the call ends with an error     *)
(* outcome (BufferTooSmall) and without an index at or beyond the buffer   *)
(* length having been read (the read that raises IndexError).              *)
(***************************************************************************)
C6_BoundsRejection ==
    (Decoded /\ dec.header_read /\ VersionSupported(dec.version)
       /\ ~AtomsFit(dec.data, FIRST_ATOM_OFFSET, dec.numatoms)) =>
        /\ ~dec.raised
        /\ dec.ret # 0

(***************************************************************************)
(* C7.  Signature gate: for a buffer whose first 4 bytes are not 'R-Pi'    *)
(* the call returns an error outcome, distinguishable from the success     *)
(* outcome 0, and reads no header field or atom after the signature.       *)
(***************************************************************************)
C7_SignatureGate ==
    (Decoded /\ ~ValidSignature(dec.data)) =>
        /\ dec.ret # 0
        /\ ~dec.header_read
        /\ dec.out = <<>>

(***************************************************************************)
(* C8.  Forward compatibility and cursor advance: an atom of any type,     *)
(* known or not, whose header lies in the buffer does not end the call; the *)
(* cursor advances by exactly 8 + dlen and the next atom is read from that *)
(* offset, so a call over declared atoms that can be read visits all of    *)
(* them, decodes those that follow an atom of unknown type, and returns 0. *)
(***************************************************************************)
C8_CursorAdvance ==
    (pc = "device" /\ dec.header_read /\ VersionSupported(dec.version)) =>
        LET out == dec.out
            n == Len(dec.out)
        IN /\ n = dec.atom_num
           /\ \A i \in 1..n :
                 /\ out[i].offset =
                       (IF i = 1 THEN FIRST_ATOM_OFFSET
                        ELSE out[i - 1].offset + 8 + out[i - 1].dlen)
                 /\ out[i].type = U16(dec.data, out[i].offset)
                 /\ out[i].index = U16(dec.data, out[i].offset + 2)
                 /\ out[i].dlen = U32(dec.data, out[i].offset + 4)
                 /\ out[i].type \in {ATOM_DT, ATOM_CUSTOM} =>
                       out[i].payload = Slice(dec.data, out[i].offset + 8,
                                              out[i].offset + 8 + out[i].dlen - 2)
           /\ dec.curr = (IF n = 0 THEN FIRST_ATOM_OFFSET
                          ELSE out[n].offset + 8 + out[n].dlen)
           /\ dec.raised =>
                 \/ ~InRange(dec.data, dec.curr + 7)
                 \/ U16(dec.data, dec.curr) = ATOM_VENDOR
                    /\ ~InRange(dec.data, dec.curr + 8 + 21)
           /\ (dec.pc = "done" /\ ~dec.raised) =>
                 /\ n = dec.numatoms
                 /\ dec.ret = 0

\* a finished call that met an atom of unknown type and decoded a custom
\* blob after it
C8_Witness ==
    /\ Decoded
    /\ dec.ret = 0
    /\ ~dec.raised
    /\ \E i \in 1..Len(dec.out) : \E j \in 1..Len(dec.out) :
          /\ i < j
          /\ dec.out[i].type \notin KnownTypes
          /\ dec.out[j].type = ATOM_CUSTOM
          /\ dec.out[j].payload # <<>>
          /\ dec.out[j].offset = dec.out[i].offset + 8 + dec.out[i].dlen

C10_CrcIndependence ==
    (pc = "device" /\ dec.pc = "header" /\ ValidSignature(dec.data)
       /\ InRange(dec.data, 11)) =>
        \A ends \in SUBSET CrcEnds(dec.data, FIRST_ATOM_OFFSET, U16(dec.data, 6)) :
           Outcome(DecodeRun([dec EXCEPT !.data = CrcChanged(dec.data, ends)]))
              = Outcome(DecodeRun(dec))

(***************************************************************************)
(* Observations on read_text.                                              *)
(***************************************************************************)
\* a step of the for loop of read_text: one more line has been read
LineRead == pc = "read_text" /\ line_count' = line_count + 1

HatPlusOnly == {"current_supply", "dt_blob"}
V1Only == {"setgpio", "gpio_drive", "gpio_slew", "gpio_hysteresis", "back_power"}

\* the line l names a directive that the format of the document d does not allow
Gated(l, d) ==
    \/ l.cmd \in HatPlusOnly /\ d.hat_format = HATV1
    \/ l.cmd \in V1Only /\ d.hat_format = HATPLUS

(***************************************************************************)
(* C11: every line that invokes a HAT+-only directive (current_supply,     *)
(* dt_blob) while the format is V1, or a V1-only directive (setgpio,       *)
(* gpio_drive, gpio_slew, gpio_hysteresis, back_power) while the format is *)
(* HAT+, is fatal, and the Document is as it was before the line.          *)
(***************************************************************************)
C11_Gating ==
    [][LineRead /\ Gated(cur_line', doc) => pc' = "exit" /\ doc' = doc]_vars

\* the same for the lines that carry an argument; this much holds
C11_GatingWithArgument ==
    [][LineRead /\ Gated(cur_line', doc) /\ cur_line'.nparts = 2
         => pc' = "exit" /\ doc' = doc]_vars

(***************************************************************************)
(* C12: in the vendor atom of every image written, each of the two length  *)
(* bytes equals the number of bytes of its string that the payload holds   *)
(* (at most 255): the vendor string's bytes follow the 22 fixed bytes, the *)
(* product string's bytes follow those, and nothing else does.             *)
(***************************************************************************)
C12_LengthBytes ==
    (AfterWrite /\ wb.ret = 0) =>
        LET v == WrittenAtoms[1].payload
        IN /\ v[21] = Len(Utf8(doc.vinf.vstr)) /\ v[21] <= 255
           /\ v[22] = Len(Utf8(doc.vinf.pstr)) /\ v[22] <= 255
           /\ Len(v) = 22 + v[21] + v[22]

(***************************************************************************)
(* C13: write_binary succeeds on every Document that read_text accepted:   *)
(* it returns 0 and the image is complete, that is, it holds all the atoms *)
(* the header announces and its length field is its length.                *)
(***************************************************************************)
C13_EncoderTotal ==
    AfterWrite =>
        /\ wb.ret = 0
        /\ Len(WrittenAtoms) = NumAtoms(doc)
        /\ U32(wb.image, EEPLEN_INDEX) = Len(wb.image)

(***************************************************************************)
(* The reference CRC16: a 16-cell shift register, written high cell first, *)
(* starting at zero; the bits of the message go in at the low end, each    *)
(* byte low bit first, then 16 zero bits; whenever a 1 leaves the high end *)
(* the polynomial 0x8005 is added (mod 2); the result is the register read *)
(* backwards.                                                              *)
(***************************************************************************)
PolyBits == <<1, 0, 0, 0, 0, 0, 0, 0, 0, 0, 0, 0, 0, 1, 0, 1>>
ZeroBits == [i \in 1..16 |-> 0]
ByteBits(b) == [k \in 1..8 |-> (b \div (2 ^ (k - 1))) % 2]
MessageBits(data) == Flatten([i \in 1..Len(data) |-> ByteBits(data[i])]) \o ZeroBits

RefStep(reg, bit) ==
    LET shifted == Tail(reg) \o <<bit>>
    IN IF Head(reg) = 1 THEN [i \in 1..16 |-> (shifted[i] + PolyBits[i]) % 2] ELSE shifted

RECURSIVE RefRun(_, _)
RefRun(reg, bits) ==
    IF bits = <<>> \/ Len(reg) # 16 THEN reg ELSE RefRun(RefStep(reg, Head(bits)), Tail(bits))

RECURSIVE Weighted(_, _)
Weighted(reg, w) == IF reg = <<>> THEN 0 ELSE Head(reg) * w + Weighted(Tail(reg), 2 * w)

\* the high cell of the register is bit 0 of the result
RefCrc16(data) == Weighted(RefRun(ZeroBits, MessageBits(data)), 1)

(***************************************************************************)
(* C14: calculate_crc16 is a function of its byte sequence: every call on  *)
(* an input returns the reference CRC16 of that input, a value in          *)
(* 0..65535, so repeated calls agree; the result for the empty sequence is *)
(* 0 (and that for "ABC" is 17697).                                        *)
(***************************************************************************)
C14_Crc16 ==
    pc = "crc" =>
        \A k \in 1..Len(crc.results) :
            /\ crc.results[k] = RefCrc16(crc.data)
            /\ crc.results[k] \in 0..65535
            /\ crc.results[k] = crc.results[1]
            /\ crc.data = <<>> => crc.results[k] = 0
            /\ crc.data = <<65, 66, 67>> => crc.results[k] = 17697

\* the function has been called repeatedly on an input of the greatest length,
\* and the result is not zero
C14_Witness ==
    /\ pc = "crc"
    /\ Len(crc.results) >= 2
    /\ Len(crc.data) >= 3
    /\ crc.results[1] # 0

\* the directives read have provided a bank-0 GPIO map: gpio_drive, gpio_slew,
\* gpio_hysteresis or back_power has been applied, or setgpio has set a pin of
\* bank 0 (the pins start as 0 and the bank-0 pin settings read are not 0)
ProvidesBank0(d) ==
    \/ d.gpio_drive_set \/ d.gpio_slew_set \/ d.gpio_hysteresis_set \/ d.gpio_power_set
    \/ \E i \in 1..Len(d.gpiomap_bank0.pins) : d.gpiomap_bank0.pins[i] # 0

(***************************************************************************)
(* C15: at the end of a V1 text the document is rejected as fatal exactly  *)
(* when no directive has provided a bank-0 GPIO map; with any bank-0 GPIO  *)
(* directive read (setgpio for a pin in 2..27 included) it passes, whether *)
(* or not the vendor fields were set.                                      *)
(***************************************************************************)
C15_EndCheckV1 ==
    [][EndOfText /\ doc.hat_format = HATV1
         => (pc' = "exit" <=> ~ProvidesBank0(doc))]_vars

\* the line l is a data line: its first token is no word, and the line is handed
\* to parse_data as it is
IsDataLine(l) == l.cmd = "" /\ l.nparts = 2 /\ ~IsAlpha(FirstToken(l.data))

(***************************************************************************)
(* C16: once an `end` line has been read no data sink is active, and a     *)
(* data line read next leaves every custom blob that existed before it as  *)
(* it was (its bytes go to a blob opened for them).                         *)
(***************************************************************************)
C16_EndClosesSink ==
    [][/\ (LineRead /\ cur_line'.cmd = "end") => doc'.data_blob = 0
       /\ (LineRead /\ cur_line.cmd = "end" /\ IsDataLine(cur_line'))
            => /\ Len(doc'.custom_blobs) = Len(doc.custom_blobs) + 1
               /\ \A k \in 1..Len(doc.custom_blobs) :
                     doc'.custom_blobs[k] = doc.custom_blobs[k]]_vars

(***************************************************************************)
(* C17: every custom_data line, with or without a payload on the line,     *)
(* appends exactly one custom blob, leaves the blobs that existed as they  *)
(* were, and makes the new blob the data sink (or has already closed it    *)
(* again, when the payload was a complete quoted string); no older blob is *)
(* the sink after it.                                                      *)
(***************************************************************************)
C17_CustomDataOpensBlob ==
    [][(LineRead /\ cur_line'.cmd = "custom_data")
         => /\ Len(doc'.custom_blobs) = Len(doc.custom_blobs) + 1
            /\ \A k \in 1..Len(doc.custom_blobs) :
                  doc'.custom_blobs[k] = doc.custom_blobs[k]
            /\ doc'.data_blob \in {0, Len(doc'.custom_blobs)}]_vars

\* the same for the lines that carry a payload; this much holds
C17_WithPayload ==
    [][(LineRead /\ cur_line'.cmd = "custom_data" /\ cur_line'.nparts = 2)
         => /\ Len(doc'.custom_blobs) = Len(doc.custom_blobs) + 1
            /\ \A k \in 1..Len(doc.custom_blobs) :
                  doc'.custom_blobs[k] = doc.custom_blobs[k]
            /\ doc'.data_blob \in {0, Len(doc'.custom_blobs)}]_vars

\* the atoms of the image carry the indices 0, 1, 2, ... in the order written
IndexedFromZero(image) ==
    LET atoms == ImageAtoms(image, FIRST_ATOM_OFFSET)
    IN \A k \in 1..Len(atoms) : atoms[k].count = k - 1

(***************************************************************************)
(* C18: in the image of every write_binary invocation the k-th atom        *)
(* written (k = 0, 1, 2, ...) carries index k, and an invocation repeated  *)
(* on the same Document returns the same value and writes the same bytes,  *)
(* the indices starting at 0 again.                                        *)
(***************************************************************************)
C18_AtomIndices ==
    /\ wb.called => IndexedFromZero(wb.image)
    /\ pc = "rewritten" =>
          /\ wb.image = wb.first.image
          /\ wb.ret = wb.first.ret
          /\ doc.atom_count = Len(WrittenAtoms)

\* write_binary has been called twice on a Document of at least three atoms
C18_Witness ==
    /\ pc = "rewritten"
    /\ wb.ret = 0
    /\ Len(WrittenAtoms) >= 3
    /\ WrittenAtoms[3].count = 2

\* the hexadecimal digits in order of value, in both cases
LowerDigits == <<48, 49, 50, 51, 52, 53, 54, 55, 56, 57, 97, 98, 99, 100, 101, 102>>
UpperDigits == <<48, 49, 50, 51, 52, 53, 54, 55, 56, 57, 65, 66, 67, 68, 69, 70>>
IsDigit(c) == \E v \in 1..16 : LowerDigits[v] = c \/ UpperDigits[v] = c
DigitValue(c) == (CHOOSE v \in 1..16 : LowerDigits[v] = c \/ UpperDigits[v] = c) - 1
\* the digits of a text, the other characters removed
DigitsOf(text) == SelectSeq(text, IsDigit)
\* the line l hands unquoted data to parse_data
IsUnquotedData(l) ==
    /\ l.nparts = 2
    /\ l.cmd = "custom_data" \/ IsDataLine(l)
    /\ Strip(l.data)[1] # 34
\* the blob that takes the data of the line l read in the Document d: the one
\* custom_data opens, or for a data line the open sink, or else a new blob
SinkOf(l, d) ==
    IF l.cmd = "custom_data" \/ d.data_blob = 0 THEN Len(d.custom_blobs) + 1 ELSE d.data_blob
BlobBefore(d, k) == IF k <= Len(d.custom_blobs) THEN d.custom_blobs[k] ELSE <<>>

(***************************************************************************)
(* C19: for a line of unquoted data, with the characters outside           *)
(* [0-9a-fA-F] removed: if the number of digits left is even, exactly half *)
(* as many bytes are appended to the sink, byte i having the value of the  *)
(* i-th pair of digits, and the parse goes on; if it is odd, parse_data    *)
(* reports an error, the parse pass is aborted, and the sink has received  *)
(* no byte.                                                                *)
(***************************************************************************)
C19_UnquotedData ==
    [][(LineRead /\ IsUnquotedData(cur_line'))
         => LET digits == DigitsOf(cur_line'.data)
                k == SinkOf(cur_line', doc)
                before == BlobBefore(doc, k)
                bytes == [i \in 1..(Len(digits) \div 2) |->
                             16 * DigitValue(digits[2 * i - 1]) + DigitValue(digits[2 * i])]
            IN /\ Len(doc'.custom_blobs) >= k
               /\ IF Len(digits) % 2 = 0
                  THEN pc' = "read_text" /\ doc'.custom_blobs[k] = before \o bytes
                  ELSE pc' = "abort" /\ doc'.custom_blobs[k] = before]_vars

\* a data line of four digits among other characters has been appended to a
\* blob that already held two bytes
C19_Witness ==
    /\ pc = "read_text"
    /\ IsUnquotedData(cur_line)
    /\ Len(DigitsOf(cur_line.data)) = 4
    /\ Len(cur_line.data) > 4
    /\ doc.custom_blobs = <<(<<65, 66, 10, 11>>)>>

\* the text holds a quote that no backslash escapes
RECURSIVE HasUnescapedQuote(_)
HasUnescapedQuote(t) ==
    IF t = <<>> THEN FALSE
    ELSE IF t[1] = 92 /\ Len(t) >= 2 THEN HasUnescapedQuote(SubSeq(t, 3, Len(t)))
    ELSE IF t[1] = 34 THEN TRUE
    ELSE HasUnescapedQuote(Tail(t))

\* the characters that follow a backslash of the text as escapes
RECURSIVE EscapesOf(_)
EscapesOf(t) ==
    IF t = <<>> THEN {}
    ELSE IF t[1] = 92 /\ Len(t) >= 2 THEN {t[2]} \cup EscapesOf(SubSeq(t, 3, Len(t)))
    ELSE EscapesOf(Tail(t))

\* the bytes a line of a string stands for: \r is CR, \\ a backslash, \0 a zero
\* byte that ends it, a bare CR nothing, any other character itself
RECURSIVE StringBytes(_)
StringBytes(t) ==
    IF t = <<>> THEN <<>>
    ELSE IF t[1] = 92 /\ Len(t) >= 2
         THEN IF t[2] = 48 THEN <<0>>
              ELSE <<(IF t[2] = 114 THEN 13 ELSE t[2])>> \o StringBytes(SubSeq(t, 3, Len(t)))
    ELSE IF t[1] = 13 THEN StringBytes(Tail(t))
    ELSE <<t[1]>> \o StringBytes(Tail(t))

(***************************************************************************)
(* C20: a line read in string mode is consumed as string bytes and never   *)
(* as a command: it changes nothing of the Document but the sink blob, the *)
(* sink and the mode, and opens no blob.  If it holds an unescaped quote   *)
(* the string mode is over and the sink is closed after it.  If it holds   *)
(* no quote and no escapes but \r, \\ and \0, its bytes are appended to    *)
(* the sink, \r as CR, \\ as a backslash, \0 as a zero byte that is the    *)
(* last one appended, and without a \0 the mode goes on.                   *)
(***************************************************************************)
C20_StringMode ==
    [][(LineRead /\ doc.in_string)
         => LET line == cur_line'.data
                k == doc.data_blob
            IN /\ cur_line'.nparts = 0
               /\ [doc' EXCEPT !.custom_blobs = doc.custom_blobs,
                               !.data_blob = doc.data_blob,
                               !.in_string = doc.in_string] = doc
               /\ Len(doc'.custom_blobs) = Len(doc.custom_blobs)
               /\ HasUnescapedQuote(line) => ~doc'.in_string /\ doc'.data_blob = 0
               /\ (~Contains(line, 34) /\ EscapesOf(line) \subseteq {114, 92, 48} /\ k # 0)
                    => /\ doc'.custom_blobs[k] = doc.custom_blobs[k] \o StringBytes(line)
                       /\ 48 \notin EscapesOf(line) => doc'.in_string]_vars

\* what the code does instead, and this much holds: the escaped quote ends the
\* string mode and closes the sink, and a line with \0 leaves both as they were
C20_EscapedQuoteEnds ==
    [][(LineRead /\ doc.in_string /\ 34 \in EscapesOf(cur_line'.data)
          /\ ~HasUnescapedQuote(cur_line'.data))
         => ~doc'.in_string /\ doc'.data_blob = 0 /\ pc' = "read_text"]_vars
C20_ZeroKeepsMode ==
    [][(LineRead /\ doc.in_string /\ 48 \in EscapesOf(cur_line'.data))
         => doc'.in_string /\ doc'.data_blob = doc.data_blob]_vars

(***************************************************************************)
(* C21: an unclosed quoted string is fatal: read_text never returns 0      *)
(* (accepts the document) while the multi-line string mode is still open,  *)
(* and a one-line string without its closing quote ends the parse.         *)
(***************************************************************************)
C21_UnclosedStringFatal ==
    /\ pc = "parsed" => ~doc.in_string
    /\ (cur_line.cmd = "custom_data" /\ cur_line.nparts = 2
          /\ Len(cur_line.data) > 1 /\ cur_line.data[1] = 34
          /\ ~HasUnescapedQuote(Tail(cur_line.data)))
         => pc = "exit"

\* C23: after any sequence of accepted product_id / product_ver directives the
\* stored pid and pver each lie in 0..0xFFFF
C23_IdVerRange ==
    pc = "read_text" => doc.vinf.pid \in 0..65535 /\ doc.vinf.pver \in 0..65535

\* C24: after any sequence of accepted current_supply directives the presence
\* flag of the power supply is set only if the stored value is nonzero, and the
\* stored value lies in 0..2^32-1
C24_PowerSupply ==
    pc = "read_text" =>
        /\ doc.has_power_supply => doc.power_supply # 0
        /\ doc.power_supply >= 0
        /\ doc.power_supply \div 65536 < 65536

\* the line l hands a quoted string that goes on after the quote to parse_data
IsOneLineString(l) ==
    /\ l.cmd = "custom_data" /\ l.nparts = 2
    /\ Len(l.data) > 1 /\ l.data[1] = 34 /\ l.data[2] \notin {10, 13}
\* the byte each escape letter stands for: r \ " n t 0
OneLineEscapes == (114 :> 13) @@ (92 :> 92) @@ (34 :> 34) @@ (110 :> 10) @@ (116 :> 9) @@ (48 :> 0)
\* the reading of a one-line string t from its character i on, as stated: the
\* bytes up to the closing quote, or not ok where the string is fatal
RECURSIVE StatedString(_, _)
StatedString(t, i) ==
    IF i > Len(t) THEN [ok |-> FALSE, bytes |-> <<>>]
    ELSE IF t[i] = 34 THEN [ok |-> TRUE, bytes |-> <<>>]
    ELSE LET esc == t[i] = 92 /\ i < Len(t)
             fatal == IF esc THEN t[i + 1] \notin DOMAIN OneLineEscapes
                      ELSE ~IsPrintable(t[i]) /\ t[i] \notin Whitespace
             rest == StatedString(t, IF esc THEN i + 2 ELSE i + 1)
         IN IF fatal \/ ~rest.ok THEN [ok |-> FALSE, bytes |-> <<>>]
            ELSE [ok |-> TRUE,
                  bytes |-> <<IF esc THEN OneLineEscapes[t[i + 1]] ELSE t[i]>> \o rest.bytes]

(***************************************************************************)
(* C22: in a one-line quoted string each of the escapes \r \\ \" \n \t \0  *)
(* appends exactly its one byte, any other escape is fatal, a raw          *)
(* character is fatal exactly when it is non-printable and not whitespace  *)
(* (a raw tab is accepted and appended), and the closing unescaped quote   *)
(* closes the sink.                                                        *)
(***************************************************************************)
C22_OneLineString ==
    [][(LineRead /\ IsOneLineString(cur_line'))
         => LET r == StatedString(cur_line'.data, 2)
            IN IF r.ok
               THEN /\ pc' = "read_text"
                    /\ doc'.custom_blobs = Append(doc.custom_blobs, r.bytes)
                    /\ doc'.data_blob = 0
               ELSE pc' = "exit"]_vars

\* the codes the statement gives to the function and pull words
StatedFn ==
    ("INPUT" :> 0) @@ ("OUTPUT" :> 1) @@ ("ALT5" :> 2) @@ ("ALT4" :> 3) @@ ("ALT0" :> 4)
        @@ ("ALT1" :> 5) @@ ("ALT2" :> 6) @@ ("ALT3" :> 7)
StatedPull == ("DEFAULT" :> 0) @@ ("UP" :> 1) @@ ("DOWN" :> 2) @@ ("NONE" :> 3)
\* the line l is a setgpio line with its three arguments
IsSetGpio(l) == l.cmd = "setgpio" /\ l.nparts = 2 /\ Len(l.data) = 3

(***************************************************************************)
(* C25: a setgpio line in V1 with a pin outside [2,45] is rejected and     *)
(* leaves both pin maps as they were; with a pin p in 2..27 it writes      *)
(* entry p of bank 0, with p in 28..45 entry p-28 (below 18) of bank 1;    *)
(* the byte written is the function code + 16 * the pull code; no other    *)
(* pin entry changes.                                                      *)
(***************************************************************************)
C25_SetGpio ==
    [][(LineRead /\ IsSetGpio(cur_line') /\ doc.hat_format = HATV1)
         => LET p == cur_line'.data[1]
                fn == FnWords[cur_line'.data[2]]
                pull == PullWords[cur_line'.data[3]]
                bank0 == doc.gpiomap_bank0.pins
                bank1 == doc.gpiomap_bank1.pins
            IN IF p < 2 \/ p > 45
               THEN /\ pc' = "abort"
                    /\ doc'.gpiomap_bank0 = doc.gpiomap_bank0
                    /\ doc'.gpiomap_bank1 = doc.gpiomap_bank1
               ELSE (fn \in DOMAIN StatedFn /\ pull \in DOMAIN StatedPull)
                    => LET byte == StatedFn[fn] + 16 * StatedPull[pull]
                       IN /\ pc' = "read_text"
                          /\ IF p <= 27
                             THEN /\ doc'.gpiomap_bank0.pins = [bank0 EXCEPT ![p + 1] = byte]
                                  /\ doc'.gpiomap_bank1.pins = bank1
                             ELSE /\ p - 28 < 18
                                  /\ doc'.gpiomap_bank1.pins = [bank1 EXCEPT ![p - 28 + 1] = byte]
                                  /\ doc'.gpiomap_bank0.pins = bank0]_vars

\* pin 28 has been set to ALT3 with pull UP (entry 0 of bank 1) after pin 27
\* was set in bank 0
C25_Witness ==
    /\ pc = "read_text"
    /\ IsSetGpio(cur_line)
    /\ cur_line.data = <<28, 6, 2>>
    /\ doc.gpiomap_bank1.pins[1] = 23
    /\ doc.gpiomap_bank0.pins[28] # 0

\* the positions of the one bits of x, bit 0 the lowest
BitsOf(x) == {i \in 0..15 : (x \div (2 ^ i)) % 2 = 1}
\* the line l is gpio_drive, gpio_slew or gpio_hysteresis with its argument
IsFlagLine(l) ==
    l.cmd \in {"gpio_drive", "gpio_slew", "gpio_hysteresis"} /\ l.nparts = 2 /\ Len(l.data) = 1
\* a step that reads such a line in V1 keeps the flags byte of bank 0 in 0..255,
\* ORs a value in range (drive 0..8, slew 0..2, hysteresis 0..2) into its field
\* and nowhere else, and leaves the byte alone for a value out of range; the
\* field of drive is bits 0-3, that of slew the wslew bits from sslew up, that
\* of hysteresis the whyst bits from shyst up
FlagsStep(sslew, wslew, shyst, whyst) ==
    (LineRead /\ IsFlagLine(cur_line') /\ doc.hat_format = HATV1)
      => LET v == cur_line'.data[1]
             cmd == cur_line'.cmd
             shift == IF cmd = "gpio_drive" THEN 0 ELSE IF cmd = "gpio_slew" THEN sslew ELSE shyst
             width == IF cmd = "gpio_drive" THEN 4 ELSE IF cmd = "gpio_slew" THEN wslew ELSE whyst
             top == IF cmd = "gpio_drive" THEN 8 ELSE 2
             old == doc.gpiomap_bank0.flags
             new == doc'.gpiomap_bank0.flags
         IN /\ new \in 0..255
            /\ IF 0 <= v /\ v <= top
               THEN /\ BitsOf(new) = BitsOf(old) \cup {shift + i : i \in BitsOf(v)}
                    /\ BitsOf(new) \ BitsOf(old) \subseteq shift..(shift + width - 1)
               ELSE new = old

(***************************************************************************)
(* C26, as stated: after any sequence of gpio_drive, gpio_slew and         *)
(* gpio_hysteresis the flags byte of bank 0 stays in 0..255 and holds      *)
(* drive in bits 0-3, slew in bit 4 and hysteresis in bits 5-6, without    *)
(* overlap; a value out of range contributes nothing.                      *)
(***************************************************************************)
C26_FlagsLayoutStated == [][FlagsStep(4, 1, 5, 2)]_vars

(***************************************************************************)
(* C26, amended: after any sequence of gpio_drive, gpio_slew and           *)
(* gpio_hysteresis the flags byte of bank 0 stays in 0..255; a value in    *)
(* range is OR-ed into its field, drive in bits 0-3, slew in bits 4-5 and  *)
(* hysteresis in bits 6-7, without overlap; a value out of range           *)
(* contributes nothing.                                                    *)
(***************************************************************************)
C26_FlagsLayout == [][FlagsStep(4, 2, 6, 2)]_vars

\* gpio_hysteresis 2 has been read after gpio_slew 2: bits 7 and 5
C26_Witness ==
    /\ pc = "read_text"
    /\ IsFlagLine(cur_line)
    /\ cur_line.cmd = "gpio_hysteresis"
    /\ cur_line.data = <<2>>
    /\ doc.gpiomap_bank0.flags = 160

\* the line l opens with a token that is no known command
IsOtherLine(l) == l.cmd = "" /\ l.nparts \in {1, 2} /\ l.data # <<>>

(***************************************************************************)
(* C27: a line whose first token is no known command and not purely        *)
(* alphabetic is decoded in full as inline data into the open sink, or     *)
(* into a fresh custom blob when no sink is open, a line of one token      *)
(* included; a line whose unknown first token is purely alphabetic leaves  *)
(* the whole Document, the sink included, unchanged.                       *)
(***************************************************************************)
C27_UnknownToken ==
    [][(LineRead /\ IsOtherLine(cur_line') /\ Strip(cur_line'.data)[1] # 34)
         => IF IsAlpha(FirstToken(cur_line'.data))
            THEN doc' = doc /\ pc' = "read_text"
            ELSE LET digits == DigitsOf(cur_line'.data)
                     k == SinkOf(cur_line', doc)
                     bytes == [i \in 1..(Len(digits) \div 2) |->
                                  16 * DigitValue(digits[2 * i - 1]) + DigitValue(digits[2 * i])]
                 IN Len(digits) % 2 = 0
                    => /\ pc' = "read_text"
                       /\ Len(doc'.custom_blobs) >= k
                       /\ doc'.custom_blobs[k] = BlobBefore(doc, k) \o bytes
                       /\ doc'.data_blob = k]_vars

(***************************************************************************)
(* C28: the active data sink is either absent or the custom blob created   *)
(* last; a step of the parse never appends data bytes to the vendor        *)
(* string, the product string, the dt blob or a custom blob other than the *)
(* sink; and with no sink add_data_byte changes nothing.                   *)
(***************************************************************************)
C28_SinkInvariant ==
    [][/\ doc'.data_blob \in {0, Len(doc'.custom_blobs)}
       /\ doc'.data_blob = 0 => \A b \in {0, 65, 255} : add_data_byte(doc', b) = doc'
       /\ cur_line'.cmd # "vendor" => doc'.vinf.vstr = doc.vinf.vstr
       /\ cur_line'.cmd # "product" => doc'.vinf.pstr = doc.vinf.pstr
       /\ cur_line'.cmd # "dt_blob" => doc'.dt_blob = doc.dt_blob
       /\ Len(doc'.custom_blobs) >= Len(doc.custom_blobs)
       /\ \A k \in 1..Len(doc.custom_blobs) :
             k # doc.data_blob => doc'.custom_blobs[k] = doc.custom_blobs[k]]_vars

\* a second custom blob is the sink and holds data, the first one holds data too
C28_Witness ==
    /\ pc = "read_text"
    /\ Len(doc.custom_blobs) = 2
    /\ doc.data_blob = 2
    /\ doc.custom_blobs[1] # <<>>
    /\ doc.custom_blobs[2] # <<>>

(***************************************************************************)
(* C30: write_eeprom_from_file issues its page writes in strictly          *)
(* ascending address order, each within one 32-byte page, covering the     *)
(* padded range [start_addr, start_addr + padded length) exactly once; the *)
(* loop terminates (every write is at least one byte long and none goes    *)
(* past the end of the range, and the call is never stuck before it        *)
(* returns); at the first device error it stops and returns that error     *)
(* with the number of bytes written so far; it returns status 0 only after *)
(* all padded bytes were written.                                          *)
(***************************************************************************)
C30_PageWrites ==
    pc = "program" =>
        LET w == wr.writes
            padded == IF Len(wr.file) <= 256 THEN 256 ELSE 512
            end == wr.start_addr + padded
        IN /\ \A i \in 1..Len(w) :
                 /\ w[i].len >= 1
                 /\ w[i].addr \div 32 = (w[i].addr + w[i].len - 1) \div 32
                 /\ w[i].addr = IF i = 1 THEN wr.start_addr ELSE w[i - 1].addr + w[i - 1].len
                 /\ w[i].addr + w[i].len <= end
                 /\ w[i].ret # 0 => i = Len(w) /\ wr.pc = "done"
           /\ wr.pc \in {"open", "loop"} => ENABLED NextWrite
           /\ (wr.pc = "done" /\ wr.found) =>
                 /\ Len(w) > 0
                 /\ IF wr.ret[1] = 0
                    THEN /\ w[Len(w)].ret = 0
                         /\ w[Len(w)].addr + w[Len(w)].len = end
                    ELSE /\ w[Len(w)].ret = wr.ret[1]
                         /\ wr.ret[2] = w[Len(w)].addr - wr.start_addr

\* a file of 33 bytes has been written from address 16 on: nine writes, the
\* first and the last of 16 bytes, and the call has returned (0, 33)
C30_Witness ==
    /\ pc = "program"
    /\ wr.pc = "done"
    /\ wr.ret = <<0, 33>>
    /\ wr.start_addr = 16
    /\ Len(wr.writes) = 9
    /\ wr.writes[1].len = 16
    /\ wr.writes[9] = [addr |-> 256, len |-> 16, ret |-> 0]

(***************************************************************************)
(* C29: verify_eeprom_write returns True only if a read-back within its at *)
(* most 6 attempts returned status 0 and every byte of the file equals the *)
(* byte read at the same offset; a read that fails or returns fewer bytes  *)
(* than the file is long never results in True.                            *)
(***************************************************************************)
C29_VerifyTrue ==
    (pc = "verify" /\ ver.pc = "done" /\ ver.result)
        => /\ ver.attempt < 6
           /\ ver.good
           /\ ver.ret = 0
           /\ Len(ver.data_list) >= Len(ver.original_data)

====
